---- MODULE Spec2Model ----
(***************************************************************************)
(* Lifecycle state machine (AbstractRunner), DecoratedRunner, MultiRunner  *)
(* and Task of telemetry-js/telemetry, as a state machine over the Node.js *)
(* event loop: a synchronous call chain is one step, process.nextTick      *)
(* callbacks wait in a FIFO queue, plugin hooks complete when the plugin   *)
(* (the environment) signals it.                                           *)
(***************************************************************************)
EXTENDS Integers, Sequences, FiniteSets, TLC

\* ------------------------------------------------------------------ bounds
NumLeaves == 4      \* plugin instances (each wrapped by one DecoratedRunner)
MaxChildren == 3    \* addRunner() calls on the stand-alone MultiRunner
MaxCalls == 3       \* external start()/stop() calls on the single runner
MaxMultiCalls == 2  \* external start()/stop() calls on the MultiRunner
MaxTaskCalls == 2   \* external start()/stop() calls on the Task
MaxTaskFailures == 1 \* plugin hooks that fail in one behaviour of the Task
MaxTakes == 3       \* collect/process/publish/schedule/use calls at any time
MaxPingPlugins == 2 \* plugins registered on the Task that is pinged
MaxPings == 2       \* external ping() calls
MaxPingFaults == 1  \* ping signals with an error or beyond the first
MaxEmits == 2       \* metrics emitted by the plugins
MaxOptionCalls == 1 \* registration calls with a [factory, options] element
MaxControlPlugins == 3 \* plugins registered on the Tasks of the Control
MaxErrors == 1      \* 'error' events emitted by the plugins
MaxErrorPlugins == 1 \* plugins registered where plugins emit 'error'
MaxErrorPings == 1  \* task.ping() calls where plugins emit or report errors
MaxChildPlugins == 1 \* plugins registered where the Tasks are started directly
MaxRestartCalls == 3 \* external start()/stop() calls on the Task that is restarted
MaxRestartPlugins == 2 \* plugins registered on the Task that is restarted
MaxStopPings == 1   \* task.ping() calls on the Task that is stopped

\* ------------------------------------------------------------- identities
Leaves == 1..NumLeaves          \* DecoratedRunner r wraps plugin r
Multi == 0                      \* the MultiRunner
TaskId == NumLeaves + 1         \* the Task (its _multiRunner is Multi)
Control == NumLeaves + 2        \* the Control (a MultiRunner of Tasks)
Task2 == NumLeaves + 3          \* a second Task of the Control
Multi2 == NumLeaves + 4         \* the _multiRunner of the second Task
Runners == 0..(NumLeaves + 4)
Multis == {Multi, Multi2, Control}
Tasks == {TaskId, Task2}

\* The elements of an array.
Range(seq) == {seq[i] : i \in 1..Len(seq)}

\* this._multiRunner of a Task
multiRunner(t) == IF t = TaskId THEN Multi ELSE Multi2

STATUS_STARTING == "starting"
STATUS_STARTED == "started"
STATUS_STOPPING == "stopping"
STATUS_STOPPED == "stopped"

ErrStartBeforeStop == "Cannot start() before stop()"
ErrStartBeforeStopCompleted == "Cannot start() before stop() has completed"
ErrStopBeforeStart == "Cannot stop() before start()"
ErrStopBeforeStartCompleted == "Cannot stop() before start() has completed"
ErrAddRunnerAfterStart == "Cannot addRunner() after start()"
ErrTaskFrozen(method) == "Cannot " \o method \o "() after task has been frozen"

\* An error value is the sequence of the hook failures it carries; the n-th
\* hook invocation's failure is <<n>>, no error (null/undefined) is <<>>.
NoErr == <<>>

\* A callback is a closure: t names the function, id what it closes over.
Cb(t, id) == [t |-> t, id |-> id]
NoCb == Cb("none", 0)

\* fqn(parts): `<${parts.join(':')}>`
RECURSIVE join(_, _)
join(parts, sep) ==
  IF parts = <<>> THEN ""
  ELSE IF Len(parts) = 1 THEN parts[1]
  ELSE parts[1] \o sep \o join(Tail(parts), sep)

fqn(parts) == "<" \o join(parts, ":") \o ">"

\* this._name of a Task constructed without a name
taskName == "Task(anonymous)"

\* The constructor name of the plugin instances.
pluginName(plugin) == "Plugin"

noPingTarget == fqn(<<taskName, "None">>)

ErrPing == "Cannot ping() before completion of previous ping"
WarnPingTwice == "Plugin called the ping callback more than once"

VARIABLES
  scenario,    \* which classes are instantiated: "runner", "multi" or "task"
  status,      \* [Runners -> status]            this[status]
  onStart,     \* [Runners -> Seq(listener)]     once('start') listeners
  onStop,      \* [Runners -> Seq(listener)]     once('stop') listeners
  callback,    \* [Runners -> callback]          callback captured by the in-flight start()/stop()
  hasStart,    \* [Leaves -> BOOLEAN]            typeof nut.start === 'function'
  hasStop,     \* [Leaves -> BOOLEAN]            typeof nut.stop === 'function'
  hook,        \* [Leaves -> "none"|"start"|"stop"]  plugin hook awaiting its completion signal
  tick,        \* Seq(task)                      the process.nextTick queue
  startOrder,  \* [Multis -> Seq(Runners)]       MultiRunner._startOrder
  stopOrder,   \* [Multis -> Seq(Runners)]       MultiRunner._stopOrder
  frozen,      \* [Multis -> BOOLEAN]            MultiRunner._frozen
  loop,        \* [Multis -> [pos, length, errors]]  locals of the running MultiRunner loop
  order,       \* Seq([r, op, done, err])        log of _start/_stop invocations and their outcome
  callers,     \* Seq(record)                    log of the external calls and what came of them
  regs,        \* Seq([m, r, stopFirst, thrown]) log of the addRunner() calls
  collectors,  \* [Tasks -> Seq(Leaves)]        Task._collectors
  processors,  \* [Tasks -> Seq(Leaves)]        Task._processors
  publishers,  \* [Tasks -> Seq(Leaves)]        Task._publishers
  schedules,   \* [Tasks -> Seq(Leaves)]        Task._schedules
  taskFrozen,  \* [Tasks -> BOOLEAN]            Task._frozen
  takes,       \* Seq([t, method, p, thrown])   log of the collect/process/publish/schedule calls
  hasPing,          \* [Leaves -> BOOLEAN]       typeof plugin.ping === 'function'
  pingablePlugins,  \* [Tasks -> Seq(Wrapped)]   Task._pingablePlugins
  pinging,          \* [Tasks -> BOOLEAN]        Task._pinging
  pingIndex,        \* [Tasks -> Nat]            Task._pingIndex
  pingCallback,     \* [Tasks -> callback]       Task._pingCallback
  currentPingTarget, \* [Tasks -> name]          Task._currentPingTarget
  onMetric,         \* [Leaves -> Seq(listener)] on('metric') listeners of each plugin
  pings,            \* Seq([p, by, sig])         log of the plugin.ping() invocations and their signals
  pingers,          \* Seq(record)               log of the ping() calls and what came of them
  warnings,         \* Seq(STRING)               log of process.emitWarning()
  metrics,          \* Seq([by, begun, calls])   log of the emitted metrics and the calls they caused
  optionCalls,      \* Seq(record)               log of what the plugin factories were given
  hasOn,            \* [Leaves -> BOOLEAN]       typeof nut.on === 'function'
  onError,          \* [Runners -> Seq(listener)] on('error') listeners of each runner
  nutOnError,       \* [Leaves -> Seq(Leaves)]   on('error') listeners of each plugin instance
  errorEvents,      \* Seq([e, by, origin])      log of the 'error' events the runners emit
  reached,          \* Seq([m, r, st, at])       log of the children the start loops reach
  faults,           \* Seq([p, init, same])      log of the 'error' events the plugins emit
  uncaught     \* message thrown out of a callback nobody catches ("" if none)

vars == <<scenario, status, onStart, onStop, callback, hasStart, hasStop, hook,
          tick, startOrder, stopOrder, frozen, loop, order, callers, regs,
          collectors, processors, publishers, schedules, taskFrozen, takes,
          hasPing, pingablePlugins, pinging, pingIndex, pingCallback,
          currentPingTarget, onMetric, pings, pingers, warnings, metrics, optionCalls,
          hasOn, onError, nutOnError, errorEvents, faults, reached, uncaught>>

\* The mutable state as one record, so that a synchronous call chain is a
\* composition of functions on it.  thrown is the exception in flight, sync
\* the number of plugin.ping() calls of the chain that the plugin answers
\* before it returns.
Cur ==
  [status |-> status, onStart |-> onStart, onStop |-> onStop, callback |-> callback,
   hook |-> hook, tick |-> tick, startOrder |-> startOrder, stopOrder |-> stopOrder,
   frozen |-> frozen, loop |-> loop, order |-> order, callers |-> callers,
   regs |-> regs, collectors |-> collectors, processors |-> processors,
   publishers |-> publishers, schedules |-> schedules, taskFrozen |-> taskFrozen,
   takes |-> takes, hasPing |-> hasPing, pingablePlugins |-> pingablePlugins,
   pinging |-> pinging, pingIndex |-> pingIndex, pingCallback |-> pingCallback,
   currentPingTarget |-> currentPingTarget, onMetric |-> onMetric, pings |-> pings,
   pingers |-> pingers, warnings |-> warnings, metrics |-> metrics,
   optionCalls |-> optionCalls, onError |-> onError, nutOnError |-> nutOnError,
   errorEvents |-> errorEvents, faults |-> faults, reached |-> reached,
   sync |-> 0, thrown |-> ""]

\* The state a call chain leaves becomes the next state; the chain is
\* evaluated once.
Commit(chain) ==
  \E s \in {chain} :
  /\ status' = s.status
  /\ onStart' = s.onStart
  /\ onStop' = s.onStop
  /\ callback' = s.callback
  /\ hook' = s.hook
  /\ tick' = s.tick
  /\ startOrder' = s.startOrder
  /\ stopOrder' = s.stopOrder
  /\ frozen' = s.frozen
  /\ loop' = s.loop
  /\ order' = s.order
  /\ callers' = s.callers
  /\ regs' = s.regs
  /\ collectors' = s.collectors
  /\ processors' = s.processors
  /\ publishers' = s.publishers
  /\ schedules' = s.schedules
  /\ taskFrozen' = s.taskFrozen
  /\ takes' = s.takes
  /\ hasPing' = s.hasPing
  /\ pingablePlugins' = s.pingablePlugins
  /\ pinging' = s.pinging
  /\ pingIndex' = s.pingIndex
  /\ pingCallback' = s.pingCallback
  /\ currentPingTarget' = s.currentPingTarget
  /\ onMetric' = s.onMetric
  /\ pings' = s.pings
  /\ pingers' = s.pingers
  /\ warnings' = s.warnings
  /\ metrics' = s.metrics
  /\ optionCalls' = s.optionCalls
  /\ onError' = s.onError
  /\ nutOnError' = s.nutOnError
  /\ errorEvents' = s.errorEvents
  /\ faults' = s.faults
  /\ reached' = s.reached
  /\ UNCHANGED <<scenario, hasStart, hasStop, hasOn>>

\* ------------------------------------------------------- 'error' events
\* The emitter passed along with an 'error' event: a plugin instance, a
\* runner, or nothing.
PluginOrigin(p) == [kind |-> "plugin", id |-> p]

RunnerOrigin(r) == [kind |-> "runner", id |-> r]

NoOrigin == [kind |-> "none", id |-> 0]

\* The listener (err, emitter) => to.emit('error', err, emitter || dflt);
\* a listener of the user has no runner to forward to.
ErrorListener(to, dflt) == [to |-> to, dflt |-> dflt]

NoRunner == 0 - 1

UserListener == ErrorListener(NoRunner, NoOrigin)

\* Mutant: the listener tags the event with its own runner.
originOf_Default(emitter, dflt) == dflt

\* emitter || dflt
originOf(emitter, dflt) == IF emitter # NoOrigin THEN emitter ELSE dflt

\* What EventEmitter.emit('error') throws when nobody listens.
ErrUnhandled == "Unhandled error"

RECURSIVE emitError(_, _, _, _), runErrorListeners(_, _, _, _)

\* by.emit('error', err, emitter): e identifies the error.
emitError(s, by, e, emitter) ==
  LET s1 == [s EXCEPT !.errorEvents = Append(@, [e |-> e, by |-> by, origin |-> emitter])] IN
  IF s.onError[by] = <<>> THEN [s1 EXCEPT !.thrown = ErrUnhandled]
  ELSE runErrorListeners(s1, s.onError[by], e, emitter)

runErrorListeners(s, listeners, e, emitter) ==
  IF listeners = <<>> \/ s.thrown # "" THEN s
  ELSE LET l == Head(listeners)
           s1 == IF l.to = NoRunner THEN s
                 ELSE emitError(s, l.to, e, originOf(emitter, l.dflt))
       IN runErrorListeners(s1, Tail(listeners), e, emitter)

\* The listeners (err) => decorated.emit('error', err, nut) of plugin nut.
RECURSIVE runNutListeners(_, _, _, _)
runNutListeners(s, listeners, nut, e) ==
  IF listeners = <<>> \/ s.thrown # "" THEN s
  ELSE runNutListeners(emitError(s, Head(listeners), e, PluginOrigin(nut)),
                       Tail(listeners), nut, e)

\* nut.emit('error', err)
nutEmitError(s, nut, e) ==
  IF s.nutOnError[nut] = <<>> THEN [s EXCEPT !.thrown = ErrUnhandled]
  ELSE runNutListeners(s, s.nutOnError[nut], nut, e)

\* new DecoratedRunner(nut): the constructor listens to the plugin's errors
decorate(s, nut) ==
  IF hasOn[nut] THEN [s EXCEPT !.nutOnError[nut] = Append(@, nut)] ELSE s

\* plugins.map(Runner.decorate)
RECURSIVE decorateAll(_, _)
decorateAll(s, plugins) ==
  IF plugins = <<>> THEN s ELSE decorateAll(decorate(s, Head(plugins)), Tail(plugins))

\* ------------------------------------------------------- AbstractRunner
\* Mutant: the guard of start() forgets the Starting status.
startDecision_NoStartingGuard(st, grace) ==
  IF grace /\ st = STATUS_STARTED THEN "nextTick"
  ELSE IF grace /\ st = STATUS_STARTING THEN "join"
  ELSE IF grace /\ st = STATUS_STOPPING THEN "defer"
  ELSE IF st = STATUS_STARTED THEN ErrStartBeforeStop
  ELSE IF st = STATUS_STOPPING THEN ErrStartBeforeStopCompleted
  ELSE "run"

\* Mutant: a grace start() that meets Stopping starts at once instead of
\* waiting for the stop.
startDecision_DeferRuns(st, grace) ==
  IF grace /\ st = STATUS_STARTED THEN "nextTick"
  ELSE IF grace /\ st = STATUS_STARTING THEN "join"
  ELSE IF grace /\ st = STATUS_STOPPING THEN "run"
  ELSE IF st = STATUS_STARTED \/ st = STATUS_STARTING THEN ErrStartBeforeStop
  ELSE IF st = STATUS_STOPPING THEN ErrStartBeforeStopCompleted
  ELSE "run"

\* What start() does in each status: "nextTick", "join", "defer", "run", or
\* the message it throws.
startDecision(st, grace) ==
  IF grace /\ st = STATUS_STARTED THEN "nextTick"
  ELSE IF grace /\ st = STATUS_STARTING THEN "join"
  ELSE IF grace /\ st = STATUS_STOPPING THEN "defer"
  ELSE IF st = STATUS_STARTED \/ st = STATUS_STARTING THEN ErrStartBeforeStop
  ELSE IF st = STATUS_STOPPING THEN ErrStartBeforeStopCompleted
  ELSE "run"

\* Mutant: a grace stop() that meets Starting is not deferred.
stopDecision_NoDefer(st, grace) ==
  IF grace /\ st = STATUS_STOPPED THEN "nextTick"
  ELSE IF grace /\ st = STATUS_STOPPING THEN "join"
  ELSE IF st = STATUS_STOPPED \/ st = STATUS_STOPPING THEN ErrStopBeforeStart
  ELSE IF st = STATUS_STARTING THEN ErrStopBeforeStartCompleted
  ELSE "run"

\* Mutant: a grace stop() that meets Stopping invokes the stop hook again.
stopDecision_JoinRuns(st, grace) ==
  IF grace /\ st = STATUS_STOPPED THEN "nextTick"
  ELSE IF grace /\ st = STATUS_STOPPING THEN "run"
  ELSE IF grace /\ st = STATUS_STARTING THEN "defer"
  ELSE IF st = STATUS_STOPPED \/ st = STATUS_STOPPING THEN ErrStopBeforeStart
  ELSE IF st = STATUS_STARTING THEN ErrStopBeforeStartCompleted
  ELSE "run"

\* What stop() does in each status.
stopDecision(st, grace) ==
  IF grace /\ st = STATUS_STOPPED THEN "nextTick"
  ELSE IF grace /\ st = STATUS_STOPPING THEN "join"
  ELSE IF grace /\ st = STATUS_STARTING THEN "defer"
  ELSE IF st = STATUS_STOPPED \/ st = STATUS_STOPPING THEN ErrStopBeforeStart
  ELSE IF st = STATUS_STARTING THEN ErrStopBeforeStartCompleted
  ELSE "run"

\* process.nextTick(fn, ...args): k = "cb" calls cb(err); k = "start"/"stop"
\* calls r.start/r.stop({grace: true}, cb).
TickTask(k, r, cb, err) == [k |-> k, r |-> r, cb |-> cb, err |-> err]

nextTick(s, task) == [s EXCEPT !.tick = Append(@, task)]

throw(s, msg) == [s EXCEPT !.thrown = msg]

\* A once() listener: "join" hands the event's error to cb on the next tick,
\* "replay" re-issues the deferred call on the next tick.
Listener(k, cb) == [k |-> k, cb |-> cb]

\* Mutant: a joined call is told of the completion, not of its error.
ListenerTasks_DropErr(ls, ev, r, err) ==
  [i \in 1..Len(ls) |->
     IF ls[i].k = "join" THEN TickTask("cb", r, ls[i].cb, NoErr)
     ELSE TickTask(IF ev = "start" THEN "stop" ELSE "start", r, ls[i].cb, NoErr)]

\* Mutant: the deferred calls are forgotten when the event arrives.
ListenerTasks_DropsReplay(ls, ev, r, err) ==
  LET joined == SelectSeq(ls, LAMBDA l : l.k = "join") IN
  [i \in 1..Len(joined) |-> TickTask("cb", r, joined[i].cb, err)]

\* The tick tasks the listeners of event ev ('start' or 'stop') of r queue.
ListenerTasks(ls, ev, r, err) ==
  [i \in 1..Len(ls) |->
     IF ls[i].k = "join" THEN TickTask("cb", r, ls[i].cb, err)
     ELSE TickTask(IF ev = "start" THEN "stop" ELSE "start", r, ls[i].cb, NoErr)]

\* this.emit(ev, err): every once() listener runs and is removed.
emit(s, ev, r, err) ==
  IF ev = "start"
  THEN [s EXCEPT !.tick = @ \o ListenerTasks(s.onStart[r], ev, r, err),
                 !.onStart[r] = <<>>]
  ELSE [s EXCEPT !.tick = @ \o ListenerTasks(s.onStop[r], ev, r, err),
                 !.onStop[r] = <<>>]

\* The status a completed start leaves.
startedStatus(err) == IF err # NoErr THEN STATUS_STOPPED ELSE STATUS_STARTED

\* Mutant: a stop that fails leaves the runner Started.
stoppedStatus_FailedStaysStarted(err) ==
  IF err # NoErr THEN STATUS_STARTED ELSE STATUS_STOPPED

\* The status a completed stop leaves.
stoppedStatus(err) == STATUS_STOPPED

\* The log entry of a hook invocation, and the index of r's latest one.
HookEntry(r, op) == [r |-> r, op |-> op, done |-> FALSE, err |-> NoErr]

LastHook(ord, r) ==
  LET idx == {i \in 1..Len(ord) : ord[i].r = r} IN
  IF idx = {} THEN 0 ELSE CHOOSE i \in idx : \A j \in idx : j <= i

logHook(s, r, op) == [s EXCEPT !.order = Append(@, HookEntry(r, op))]

logDone(s, r, err) ==
  LET i == LastHook(s.order, r) IN
  [s EXCEPT !.order[i].done = TRUE, !.order[i].err = err]

\* combine(errors) of combine-errors: one error carrying all of them.
RECURSIVE combine(_)
combine(errors) ==
  IF errors = <<>> THEN <<>> ELSE Head(errors) \o combine(Tail(errors))

RECURSIVE start(_, _, _, _), stop(_, _, _, _), call(_, _, _),
          Multi_start(_, _), startLoop(_, _, _), cancelStart(_, _, _), cancelLoop(_, _, _),
          Multi_stop(_, _), stopLoop(_, _, _), Task_start(_, _), Task_stop(_, _)

\* DecoratedRunner._start / _stop
Decorated_start(s, r) ==
  IF hasStart[r]
  THEN [s EXCEPT !.hook[r] = "start"]
  ELSE nextTick(s, TickTask("cb", r, Cb("startDone", r), NoErr))

Decorated_stop(s, r) ==
  IF hasStop[r]
  THEN [s EXCEPT !.hook[r] = "stop"]
  ELSE nextTick(s, TickTask("cb", r, Cb("stopDone", r), NoErr))

\* this._start(...) / this._stop(...): dispatch on the runner's class
call_start(s, r) ==
  LET s1 == logHook(s, r, "_start") IN
  IF r \in Leaves THEN Decorated_start(s1, r)
  ELSE IF r \in Tasks THEN Task_start(s1, r)
  ELSE Multi_start(s1, r)

call_stop(s, r) ==
  LET s1 == logHook(s, r, "_stop") IN
  IF r \in Leaves THEN Decorated_stop(s1, r)
  ELSE IF r \in Tasks THEN Task_stop(s1, r)
  ELSE Multi_stop(s1, r)

\* AbstractRunner.start(options, callback)
start(s, r, grace, cb) ==
  LET d == startDecision(s.status[r], grace) IN
  CASE d = "nextTick" -> nextTick(s, TickTask("cb", r, cb, NoErr))
    [] d = "join" -> [s EXCEPT !.onStart[r] = Append(@, Listener("join", cb))]
    [] d = "defer" -> [s EXCEPT !.onStop[r] = Append(@, Listener("replay", cb))]
    [] d = "run" ->
         call_start([s EXCEPT !.status[r] = STATUS_STARTING, !.callback[r] = cb], r)
    [] OTHER -> throw(s, d)

\* AbstractRunner.stop(options, callback)
stop(s, r, grace, cb) ==
  LET d == stopDecision(s.status[r], grace) IN
  CASE d = "nextTick" -> nextTick(s, TickTask("cb", r, cb, NoErr))
    [] d = "join" -> [s EXCEPT !.onStop[r] = Append(@, Listener("join", cb))]
    [] d = "defer" -> [s EXCEPT !.onStart[r] = Append(@, Listener("replay", cb))]
    [] d = "run" ->
         call_stop([s EXCEPT !.status[r] = STATUS_STOPPING, !.callback[r] = cb], r)
    [] OTHER -> throw(s, d)

\* The callback start() hands to _start
startDone(s, r, err) ==
  LET s1 == logDone([s EXCEPT !.status[r] = startedStatus(err)], r, err) IN
  call(emit(s1, "start", r, err), s.callback[r], err)

\* The callback stop() hands to _stop
stopDone(s, r, err) ==
  LET s1 == logDone([s EXCEPT !.status[r] = stoppedStatus(err)], r, err) IN
  call(emit(s1, "stop", r, err), s.callback[r], err)

\* The external caller's callback: what it was given is logged.
callerDone(s, id, err) ==
  [s EXCEPT !.callers[id].n = @ + 1,
            !.callers[id].err = err,
            !.callers[id].st = s.status[s.callers[id].r]]

\* ---------------------------------------------------------- MultiRunner
\* Mutant: a stopFirst child goes behind the stopFirst children before it.
RECURSIVE stopOrderAdd_KeepsOrder(_, _, _)
stopOrderAdd_KeepsOrder(so, runner, stopFirst) ==
  IF ~stopFirst THEN Append(so, runner)
  ELSE IF so # <<>> /\ \E i \in 1..Len(regs) :
                        regs[i].r = Head(so) /\ regs[i].stopFirst /\ regs[i].thrown = ""
  THEN <<Head(so)>> \o stopOrderAdd_KeepsOrder(Tail(so), runner, stopFirst)
  ELSE <<runner>> \o so

\* addRunner(runner, options) of composite m
stopOrderAdd(so, runner, stopFirst) ==
  IF stopFirst THEN <<runner>> \o so ELSE Append(so, runner)

startOrderAdd(so, runner) == Append(so, runner)

\* The log entry of an addRunner() call: begun tells whether a start of the
\* composite had begun before the call, idle whether it was Stopped then.
RegEntry(s, m, runner, stopFirst, thrown) ==
  [m |-> m, r |-> runner, stopFirst |-> stopFirst, thrown |-> thrown,
   begun |-> \E i \in 1..Len(s.order) : s.order[i].r = m,
   idle |-> s.status[m] = STATUS_STOPPED]

\* Mutant: addRunner() does not look at the frozen flag.
addRunner_IgnoresFrozen(s, m, runner, stopFirst) ==
  [s EXCEPT !.startOrder[m] = startOrderAdd(@, runner),
            !.stopOrder[m] = stopOrderAdd(@, runner, stopFirst),
            !.onError[runner] = Append(@, ErrorListener(m, RunnerOrigin(runner))),
            !.regs = Append(@, RegEntry(s, m, runner, stopFirst, ""))]

addRunner(s, m, runner, stopFirst) ==
  IF s.frozen[m]
  THEN throw([s EXCEPT !.regs = Append(@, RegEntry(s, m, runner, stopFirst, ErrAddRunnerAfterStart))],
             ErrAddRunnerAfterStart)
  ELSE [s EXCEPT !.startOrder[m] = startOrderAdd(@, runner),
                 !.stopOrder[m] = stopOrderAdd(@, runner, stopFirst),
                 !.onError[runner] = Append(@, ErrorListener(m, RunnerOrigin(runner))),
                 !.regs = Append(@, RegEntry(s, m, runner, stopFirst, ""))]

NewLoop(runners) == [pos |-> 0, length |-> Len(runners), errors |-> <<>>]

\* const runners = ... : the list each loop walks
startRunners(s, m) == s.startOrder[m]

\* Mutant: the rollback walks the start order.
cancelRunners_StartOrder(s, m) == s.startOrder[m]

cancelRunners(s, m) == s.stopOrder[m]

stopRunners(s, m) == s.stopOrder[m]

\* MultiRunner._start(callback) of composite m: callback is m's startDone
Multi_start(s, m) ==
  startLoop([s EXCEPT !.frozen[m] = TRUE, !.loop[m] = NewLoop(startRunners(s, m))], m, NoErr)

\* Mutant: the start loop goes on to the next child after a failure.
startLoop_IgnoresErr(s, m, err) ==
  IF s.loop[m].pos >= s.loop[m].length
  THEN nextTick(s, TickTask("cb", m, Cb("startDone", m), NoErr))
  ELSE LET r == startRunners(s, m)[s.loop[m].pos + 1] IN
       start([s EXCEPT !.loop[m].pos = @ + 1,
                       !.reached = Append(@, [m |-> m, r |-> r, st |-> s.status[r],
                                              at |-> Len(s.order)])],
             r, FALSE, Cb("startLoop", m))

\* The log entry of the start loop of m reaching child r: the child's
\* status then, and the number of hook invocations so far.
Reach(s, m, r) == [m |-> m, r |-> r, st |-> s.status[r], at |-> Len(s.order)]

\* Mutant: an exception of a child's start() is treated as a failed start.
startLoop_CatchesThrow(s, m, err) ==
  IF err # NoErr THEN cancelStart(s, m, <<err>>)
  ELSE IF s.loop[m].pos >= s.loop[m].length
  THEN nextTick(s, TickTask("cb", m, Cb("startDone", m), NoErr))
  ELSE LET r == startRunners(s, m)[s.loop[m].pos + 1]
           s1 == start([s EXCEPT !.loop[m].pos = @ + 1,
                                 !.reached = Append(@, Reach(s, m, r))],
                       r, FALSE, Cb("startLoop", m))
       IN IF s1.thrown = "" THEN s1
          ELSE cancelStart([s1 EXCEPT !.thrown = ""], m, <<<<0>>>>)

startLoop(s, m, err) ==
  IF err # NoErr THEN cancelStart(s, m, <<err>>)
  ELSE IF s.loop[m].pos >= s.loop[m].length
  THEN nextTick(s, TickTask("cb", m, Cb("startDone", m), NoErr))
  ELSE LET r == startRunners(s, m)[s.loop[m].pos + 1] IN
       start([s EXCEPT !.loop[m].pos = @ + 1, !.reached = Append(@, Reach(s, m, r))],
             r, FALSE, Cb("startLoop", m))

\* MultiRunner._cancelStart(callback, errors)
withGrace == TRUE

\* Mutant: a failed start is reported without stopping any child.
cancelStart_NoRollback(s, m, errors) ==
  nextTick(s, TickTask("cb", m, Cb("startDone", m), combine(errors)))

\* Mutant: the rollback forgets the failure that caused it.
cancelStart_DropsCause(s, m, errors) ==
  cancelLoop([s EXCEPT !.loop[m] = NewLoop(cancelRunners(s, m))], m, NoErr)

cancelStart(s, m, errors) ==
  cancelLoop([s EXCEPT !.loop[m] = [NewLoop(cancelRunners(s, m)) EXCEPT !.errors = errors]],
             m, NoErr)

cancelLoop(s, m, err) ==
  LET s1 == IF err # NoErr THEN [s EXCEPT !.loop[m].errors = Append(@, err)] ELSE s IN
  IF s1.loop[m].pos >= s1.loop[m].length
  THEN nextTick(s1, TickTask("cb", m, Cb("startDone", m), combine(s1.loop[m].errors)))
  ELSE stop([s1 EXCEPT !.loop[m].pos = @ + 1], cancelRunners(s1, m)[s1.loop[m].pos + 1],
            withGrace, Cb("cancelLoop", m))

\* MultiRunner._stop(callback) of composite m: callback is m's stopDone
Multi_stop(s, m) ==
  stopLoop([s EXCEPT !.loop[m] = NewLoop(stopRunners(s, m))], m, NoErr)

\* Mutant: the stop sweep ends at the first child whose stop fails.
stopLoop_StopsAtFailure(s, m, err) ==
  IF err # NoErr
  THEN nextTick(s, TickTask("cb", m, Cb("stopDone", m), err))
  ELSE IF s.loop[m].pos >= s.loop[m].length
  THEN nextTick(s, TickTask("cb", m, Cb("stopDone", m), NoErr))
  ELSE stop([s EXCEPT !.loop[m].pos = @ + 1], stopRunners(s, m)[s.loop[m].pos + 1],
            FALSE, Cb("stopLoop", m))

stopLoop(s, m, err) ==
  LET s1 == IF err # NoErr THEN [s EXCEPT !.loop[m].errors = Append(@, err)] ELSE s IN
  IF s1.loop[m].pos >= s1.loop[m].length
  THEN nextTick(s1, TickTask("cb", m, Cb("stopDone", m),
                             IF Len(s1.loop[m].errors) > 0 THEN combine(s1.loop[m].errors) ELSE NoErr))
  ELSE stop([s1 EXCEPT !.loop[m].pos = @ + 1], stopRunners(s1, m)[s1.loop[m].pos + 1],
            FALSE, Cb("stopLoop", m))

\* The log entry of a collect/process/publish/schedule/use call: p is the
\* plugin the factory returned (0: the factory was not called), begun tells
\* whether a start of the Task had begun before the call, at is the Task's
\* status then.
TakeEntry(s, t, method, p, thrown) ==
  [t |-> t, method |-> method, p |-> p, thrown |-> thrown,
   begun |-> \E i \in 1..Len(s.order) : s.order[i].r = t,
   at |-> s.status[t]]

\* ------------------------------------------------------------------ Task
\* Task._takePlugins(method, pluginFn, options, add) with one plugin factory,
\* which returns plugin p; add pushes it to the sequence of its role.
\* Mutant: _takePlugins() does not look at the frozen flag.
takePlugins_IgnoresFrozen(s, t, method, p) ==
  LET s1 == [s EXCEPT !.takes = Append(@, TakeEntry(s, t, method, p, ""))] IN
  CASE method = "collect" -> [s1 EXCEPT !.collectors[t] = Append(@, p)]
    [] method = "process" -> [s1 EXCEPT !.processors[t] = Append(@, p)]
    [] method = "publish" -> [s1 EXCEPT !.publishers[t] = Append(@, p)]
    [] method = "schedule" -> [s1 EXCEPT !.schedules[t] = Append(@, p)]
    [] OTHER -> s1

takePlugins(s, t, method, p) ==
  IF s.taskFrozen[t]
  THEN throw([s EXCEPT !.takes = Append(@, TakeEntry(s, t, method, 0, ErrTaskFrozen(method)))],
             ErrTaskFrozen(method))
  ELSE LET s1 == [s EXCEPT !.takes = Append(@, TakeEntry(s, t, method, p, ""))] IN
       CASE method = "collect" -> [s1 EXCEPT !.collectors[t] = Append(@, p)]
         [] method = "process" -> [s1 EXCEPT !.processors[t] = Append(@, p)]
         [] method = "publish" -> [s1 EXCEPT !.publishers[t] = Append(@, p)]
         [] method = "schedule" -> [s1 EXCEPT !.schedules[t] = Append(@, p)]
         [] OTHER -> s1

\* Option objects live on a heap (a sequence of objects, an object being a
\* function from its keys to their values); a reference is an index of it,
\* null is no object.
null == 0

NoProps == [k \in {} |-> 0]

\* Object.assign(target, source): the source's properties are written to
\* the target, over the target's own; a null source is skipped.
assign(heap, target, source) ==
  IF source = null THEN heap
  ELSE LET old == heap[target]
           src == heap[source]
       IN [heap EXCEPT ![target] =
             [k \in DOMAIN old \cup DOMAIN src |->
                IF k \in DOMAIN src THEN src[k] ELSE old[k]]]

\* plugin-options: {} for null, else Object.assign({}, options)
pluginOptions(heap, options) ==
  LET h1 == Append(heap, NoProps) IN
  IF options = null THEN [heap |-> h1, ref |-> Len(h1)]
  ELSE [heap |-> assign(h1, Len(h1), options), ref |-> Len(h1)]

\* Object.assign({}, el[1], arg2)
elementOptions(heap, el1, arg2) ==
  LET h1 == Append(heap, NoProps) IN
  [heap |-> assign(assign(h1, Len(h1), el1), Len(h1), arg2), ref |-> Len(h1)]

\* Task._callPlugin(pluginFn, options): the factory is given
\* pluginOptions(options); the log entry tells what it was given, whether
\* that was an object of its own, and the heap it left.
callPlugin(s, heap, options) ==
  LET o == pluginOptions(heap, options) IN
  [s EXCEPT !.optionCalls =
     Append(@, [given |-> o.heap[o.ref], fresh |-> o.ref > Len(heap), heap |-> o.heap])]

\* Task._takePlugins(method, [[pluginFn, el1]], arg2, add): the list has
\* one element of the form [factory, options]; the factory returns plugin p.
takePluginsPair(s, t, method, heap, el1, arg2, p) ==
  IF s.taskFrozen[t] THEN takePlugins(s, t, method, p)
  ELSE LET o == elementOptions(heap, el1, arg2) IN
       takePlugins(callPlugin(s, o.heap, o.ref), t, method, p)

\* for (const runner of runners) this._multiRunner.addRunner(runner, options)
RECURSIVE addRunners(_, _, _, _)
addRunners(s, m, runners, stopFirst) ==
  IF runners = <<>> \/ s.thrown # "" THEN s
  ELSE addRunners(addRunner(s, m, Head(runners), stopFirst), m, Tail(runners), stopFirst)

\* wrapper(taskName, role): wrap(plugin, index), mapped over the plugins of
\* a role (index counts from 0)
wrap(s, role, plugins) ==
  [i \in 1..Len(plugins) |->
     [plugin |-> plugins[i],
      name |-> fqn(<<taskName, role \o "[" \o ToString(i - 1) \o "]", pluginName(plugins[i])>>),
      pingable |-> s.hasPing[plugins[i]]]]

unwrap(wrapped) == wrapped.plugin

isPingable(wrapped) == wrapped.pingable

\* Mutant: the publishers are wrapped first, the collectors last.
wrappedPlugins_PublishersFirst(s, t) ==
  wrap(s, "Publisher", s.publishers[t]) \o wrap(s, "Processor", s.processors[t])
    \o wrap(s, "Collector", s.collectors[t])

\* Task._initializePlugins(): the wrapped collectors, processors and
\* publishers; those with a ping method are the ping cursor's list; all are
\* decorated and added, then the decorated schedules with stopFirst
wrappedPlugins(s, t) ==
  wrap(s, "Collector", s.collectors[t]) \o wrap(s, "Processor", s.processors[t])
    \o wrap(s, "Publisher", s.publishers[t])

decoratedPlugins(s, t) == [i \in 1..Len(wrappedPlugins(s, t)) |-> unwrap(wrappedPlugins(s, t)[i])]

setPingable(s, t) == [s EXCEPT !.pingablePlugins[t] = SelectSeq(wrappedPlugins(s, t), isPingable)]

initializePlugins_SchedulesPlain(s, t) ==
  LET s1 == decorateAll(decorateAll(s, decoratedPlugins(s, t)), s.schedules[t]) IN
  addRunners(addRunners(setPingable(s1, t), multiRunner(t), decoratedPlugins(s, t), FALSE),
             multiRunner(t), s.schedules[t], FALSE)

initializePlugins(s, t) ==
  LET s1 == decorateAll(decorateAll(s, decoratedPlugins(s, t)), s.schedules[t]) IN
  addRunners(addRunners(setPingable(s1, t), multiRunner(t), decoratedPlugins(s, t), FALSE),
             multiRunner(t), s.schedules[t], TRUE)

\* A 'metric' listener: it passes the metric to process() of plugin to, or
\* (publish) to publish() of every publisher of Task to.
MetricListener(op, to) == [op |-> op, to |-> to]

\* for (const plugin of plugins) plugin.on('metric', listener)
RECURSIVE onAll(_, _, _)
onAll(s, plugins, listener) ==
  IF plugins = <<>> THEN s
  ELSE onAll([s EXCEPT !.onMetric[Head(plugins)] = Append(@, listener)],
             Tail(plugins), listener)

\* this._processors.reduce((prev, curr) => { prev.on('metric', ...curr.process); return curr })
RECURSIVE chain(_, _)
chain(s, procs) ==
  IF Len(procs) < 2 THEN s
  ELSE chain([s EXCEPT !.onMetric[procs[1]] = Append(@, MetricListener("process", procs[2]))],
             Tail(procs))

\* Mutant: the collectors are connected to the publishers whatever the
\* processors.
connectPlugins_SkipsProcessors(s, t) ==
  IF Len(s.processors[t]) = 0
  THEN onAll(s, s.collectors[t], MetricListener("publish", t))
  ELSE LET lastProcessor == s.processors[t][Len(s.processors[t])]
           s1 == onAll(s, s.collectors[t], MetricListener("publish", t))
           s2 == chain(s1, s.processors[t])
       IN [s2 EXCEPT !.onMetric[lastProcessor] = Append(@, MetricListener("publish", t))]

\* Task._connectPlugins()
connectPlugins(s, t) ==
  IF Len(s.processors[t]) = 0
  THEN onAll(s, s.collectors[t], MetricListener("publish", t))
  ELSE LET firstProcessor == s.processors[t][1]
           lastProcessor == s.processors[t][Len(s.processors[t])]
           s1 == onAll(s, s.collectors[t], MetricListener("process", firstProcessor))
           s2 == chain(s1, s.processors[t])
       IN [s2 EXCEPT !.onMetric[lastProcessor] = Append(@, MetricListener("publish", t))]

\* maybeRelease(metric): the metric's release operation is invoked, once.
maybeRelease == <<[op |-> "release", to |-> 0]>>

\* Mutant: the metric is released before it is handed to the publishers.
publish_ReleasesFirst(s, t) ==
  maybeRelease \o [i \in 1..Len(s.publishers[t]) |-> [op |-> "publish", to |-> s.publishers[t][i]]]

\* const publish = (metric) => { for (const publisher of this._publishers)
\* publisher.publish(metric); maybeRelease(metric) }: the calls it makes
publish(s, t) ==
  [i \in 1..Len(s.publishers[t]) |-> [op |-> "publish", to |-> s.publishers[t][i]]] \o maybeRelease

\* The calls the 'metric' listeners of a plugin make, in listener order.
RECURSIVE deliver(_, _)
deliver(s, listeners) ==
  IF listeners = <<>> THEN <<>>
  ELSE (IF Head(listeners).op = "publish" THEN publish(s, Head(listeners).to)
        ELSE <<[op |-> "process", to |-> Head(listeners).to]>>)
       \o deliver(s, Tail(listeners))

\* plugin.emit('metric', metric): the log entry tells who emitted and which
\* process()/publish() calls followed.
emitMetric(s, plugin) ==
  [s EXCEPT !.metrics = Append(@, [by |-> plugin, calls |-> deliver(s, s.onMetric[plugin]),
                                   at |-> Len(s.order)])]

\* Mutant: the plugins are connected again at every start.
initialize_Rewires(s, t) ==
  IF s.taskFrozen[t] THEN connectPlugins(s, t)
  ELSE LET s1 == initializePlugins([s EXCEPT !.taskFrozen[t] = TRUE], t) IN
       IF s1.thrown # "" THEN s1 ELSE connectPlugins(s1, t)

\* Task._initialize()
initialize(s, t) ==
  IF s.taskFrozen[t] THEN s
  ELSE LET s1 == initializePlugins([s EXCEPT !.taskFrozen[t] = TRUE], t) IN
       IF s1.thrown # "" THEN s1 ELSE connectPlugins(s1, t)

\* Task._start(callback): callback is the Task's startDone
Task_start(s, t) ==
  LET s1 == initialize(s, t) IN
  IF s1.thrown # "" THEN s1
  ELSE start(s1, multiRunner(t), FALSE, Cb("startDone", t))

\* Task._stop(callback): callback is the Task's stopDone
Task_stop(s, t) == stop(s, multiRunner(t), FALSE, Cb("stopDone", t))

\* process.emitWarning(warning)
emitWarning(s, warning) == [s EXCEPT !.warnings = Append(@, warning)]

WarnPingError == "ping error"

\* The accepted ping() calls so far.
AcceptedPings(ps) == {i \in 1..Len(ps) : ps[i].thrown = ""}

\* The latest accepted ping() call: the one the cursor walks for.
LastPinger(ps) ==
  IF AcceptedPings(ps) = {} THEN 0
  ELSE CHOOSE i \in AcceptedPings(ps) : \A j \in AcceptedPings(ps) : j <= i

PingEntry(s, t, plugin) ==
  [p |-> plugin, by |-> LastPinger(s.pingers), sig |-> 0, err |-> FALSE,
   st |-> s.status[t]]

RECURSIVE pingNext(_, _, _), plugin_ping(_, _, _)

\* wrapped.plugin.ping(this._pingNext): the plugin either calls the callback
\* before it returns or keeps it for later.
plugin_ping(s, t, plugin) ==
  LET s1 == [s EXCEPT !.pings = Append(@, PingEntry(s, t, plugin))] IN
  IF s.sync > 0
  THEN pingNext([s1 EXCEPT !.sync = @ - 1, !.pings[Len(s1.pings)].sig = 1], t, FALSE)
  ELSE s1

\* Mutant: a ping error ends the cycle and is handed to the ping callback.
pingNext_StopsAtError(s, t, err) ==
  IF ~s.pinging[t]
  THEN emitWarning(s, WarnPingTwice)
  ELSE IF err
  THEN nextTick([s EXCEPT !.pinging[t] = FALSE, !.pingCallback[t] = NoCb,
                          !.currentPingTarget[t] = noPingTarget],
                TickTask("cb", t, s.pingCallback[t], <<0>>))
  ELSE IF s.pingIndex[t] = Len(s.pingablePlugins[t])
  THEN nextTick([s EXCEPT !.pinging[t] = FALSE, !.pingCallback[t] = NoCb,
                          !.currentPingTarget[t] = noPingTarget],
                TickTask("cb", t, s.pingCallback[t], NoErr))
  ELSE LET wrapped == s.pingablePlugins[t][s.pingIndex[t] + 1] IN
       plugin_ping([s EXCEPT !.pingIndex[t] = @ + 1, !.currentPingTarget[t] = wrapped.name],
                   t, wrapped.plugin)

\* Mutant: the exhausted cursor leaves the last plugin's name as the target.
pingNext_KeepsTarget(s, t, err) ==
  LET s1 == IF err THEN emitWarning(s, WarnPingError) ELSE s IN
  IF ~s1.pinging[t]
  THEN emitWarning(s1, WarnPingTwice)
  ELSE IF s1.pingIndex[t] = Len(s1.pingablePlugins[t])
  THEN nextTick([s1 EXCEPT !.pinging[t] = FALSE, !.pingCallback[t] = NoCb],
                TickTask("cb", t, s1.pingCallback[t], NoErr))
  ELSE LET wrapped == s1.pingablePlugins[t][s1.pingIndex[t] + 1] IN
       plugin_ping([s1 EXCEPT !.pingIndex[t] = @ + 1, !.currentPingTarget[t] = wrapped.name],
                   t, wrapped.plugin)

\* Mutant: the ping callback is called at once when the cursor is exhausted.
pingNext_CallsBack(s, t, err) ==
  LET s1 == IF err THEN emitWarning(s, WarnPingError) ELSE s IN
  IF ~s1.pinging[t]
  THEN emitWarning(s1, WarnPingTwice)
  ELSE IF s1.pingIndex[t] = Len(s1.pingablePlugins[t])
  THEN LET id == s1.pingCallback[t].id IN
       [s1 EXCEPT !.pinging[t] = FALSE, !.pingCallback[t] = NoCb,
                  !.currentPingTarget[t] = noPingTarget,
                  !.pingers[id].n = @ + 1,
                  !.pingers[id].tgt = noPingTarget,
                  !.pingers[id].quiet = \A i \in 1..Len(s1.pings) : s1.pings[i].sig > 0]
  ELSE LET wrapped == s1.pingablePlugins[t][s1.pingIndex[t] + 1] IN
       plugin_ping([s1 EXCEPT !.pingIndex[t] = @ + 1, !.currentPingTarget[t] = wrapped.name],
                   t, wrapped.plugin)

\* Task._pingNext(err)
pingNext(s, t, err) ==
  LET s1 == IF err THEN emitWarning(s, WarnPingError) ELSE s IN
  IF ~s1.pinging[t]
  THEN emitWarning(s1, WarnPingTwice)
  ELSE IF s1.pingIndex[t] = Len(s1.pingablePlugins[t])
  THEN nextTick([s1 EXCEPT !.pinging[t] = FALSE, !.pingCallback[t] = NoCb,
                           !.currentPingTarget[t] = noPingTarget],
                TickTask("cb", t, s1.pingCallback[t], NoErr))
  ELSE LET wrapped == s1.pingablePlugins[t][s1.pingIndex[t] + 1] IN
       plugin_ping([s1 EXCEPT !.pingIndex[t] = @ + 1, !.currentPingTarget[t] = wrapped.name],
                   t, wrapped.plugin)

\* Mutant: ping() is rejected unless the Task is started.
ping_NeedsStarted(s, t, cb) ==
  IF s.pinging[t] \/ s.status[t] # STATUS_STARTED THEN throw(s, ErrPing)
  ELSE pingNext([s EXCEPT !.pinging[t] = TRUE, !.pingIndex[t] = 0, !.pingCallback[t] = cb], t, FALSE)

\* Mutant: ping() does not reset the cursor.
ping_KeepsIndex(s, t, cb) ==
  IF s.pinging[t] THEN throw(s, ErrPing)
  ELSE pingNext([s EXCEPT !.pinging[t] = TRUE, !.pingCallback[t] = cb], t, FALSE)

\* Mutant: ping() does not look at the pinging flag.
ping_NoGuard(s, t, cb) ==
  pingNext([s EXCEPT !.pinging[t] = TRUE, !.pingIndex[t] = 0, !.pingCallback[t] = cb], t, FALSE)

\* Task.ping(callback)
ping(s, t, cb) ==
  IF s.pinging[t] THEN throw(s, ErrPing)
  ELSE pingNext([s EXCEPT !.pinging[t] = TRUE, !.pingIndex[t] = 0, !.pingCallback[t] = cb], t, FALSE)

\* The callback the caller of ping() passed to the Task: what it was given
\* is logged, and it looks at the Task's currentPingTarget().
pingerDone(s, id, err) ==
  [s EXCEPT !.pingers[id].n = @ + 1, !.pingers[id].err = err,
            !.pingers[id].tgt = s.currentPingTarget[TaskId],
            !.pingers[id].quiet = \A i \in 1..Len(s.pings) : s.pings[i].sig > 0]

\* Calling a callback: the closure it names runs.
call(s, cb, err) ==
  CASE cb.t = "caller" -> callerDone(s, cb.id, err)
    [] cb.t = "startDone" -> startDone(s, cb.id, err)
    [] cb.t = "stopDone" -> stopDone(s, cb.id, err)
    [] cb.t = "startLoop" -> startLoop(s, cb.id, err)
    [] cb.t = "cancelLoop" -> cancelLoop(s, cb.id, err)
    [] cb.t = "stopLoop" -> stopLoop(s, cb.id, err)
    [] cb.t = "pinger" -> pingerDone(s, cb.id, err)
    [] OTHER -> s

\* ------------------------------------------------------------- actions
\* A caller is settled once its call threw or its callback ran.
Settled(c) == c.thrown # "" \/ c.n > 0

\* The log entry of an external call: the status it met (at), whether every
\* earlier call had been settled or owns the transition in flight (alone),
\* and, filled in when the call returns, what it threw (thrown), whether it
\* invoked a hook (ran), the status it left (ret) and the runner's latest
\* hook invocation (hk); n, err and st are what its callback was given.
Caller(r, op, grace) ==
  [r |-> r, op |-> op, grace |-> grace, at |-> status[r],
   alone |-> \A j \in 1..Len(callers) :
               Settled(callers[j]) \/ callback[r] = Cb("caller", j),
   thrown |-> "", ran |-> FALSE, ret |-> "", hk |-> 0,
   n |-> 0, err |-> NoErr, st |-> ""]

\* What a synchronous call chain started by the external caller leaves: an
\* exception reaches the caller.
Returned(s) ==
  LET id == Len(s.callers)
      r == s.callers[id].r
  IN [s EXCEPT !.callers[id].thrown = s.thrown,
               !.callers[id].ran = Len(s.order) > Len(order),
               !.callers[id].ret = s.status[r],
               !.callers[id].hk = LastHook(s.order, r),
               !.thrown = ""]

CallLimit ==
  CASE scenario = "runner" -> MaxCalls
    [] scenario = "multi" -> MaxMultiCalls
    [] scenario = "restart" -> MaxRestartCalls
    [] OTHER -> MaxTaskCalls

\* An external caller calls r.start(options, callback)
Start(r, grace) ==
  /\ Len(callers) < CallLimit
  /\ LET id == Len(callers) + 1
         s0 == [Cur EXCEPT !.callers = Append(@, Caller(r, "start", grace))]
     IN Commit(Returned(start(s0, r, grace, Cb("caller", id))))
  /\ UNCHANGED uncaught

\* An external caller calls r.stop(options, callback)
Stop(r, grace) ==
  /\ Len(callers) < CallLimit
  /\ LET id == Len(callers) + 1
         s0 == [Cur EXCEPT !.callers = Append(@, Caller(r, "stop", grace))]
     IN Commit(Returned(stop(s0, r, grace, Cb("caller", id))))
  /\ UNCHANGED uncaught

\* Plugin r signals the completion of its start or stop hook; a failure
\* carries the error of this hook invocation.
Failures == Cardinality({i \in 1..Len(order) : order[i].r \in Leaves /\ order[i].err # NoErr})

HookDone(r, fails) ==
  /\ hook[r] # "none"
  /\ (fails /\ scenario \notin {"runner", "multi"}) => Failures < MaxTaskFailures
  /\ LET err == IF fails THEN <<LastHook(order, r)>> ELSE NoErr
         s0 == [Cur EXCEPT !.hook[r] = "none"]
         s1 == call(s0, Cb(IF hook[r] = "start" THEN "startDone" ELSE "stopDone", r), err)
     IN /\ Commit(s1)
        /\ uncaught' = IF s1.thrown # "" THEN s1.thrown ELSE uncaught

\* The event loop runs the next process.nextTick task.
Tick ==
  /\ tick # <<>>
  /\ LET t == Head(tick)
         s0 == [Cur EXCEPT !.tick = Tail(@)]
         s1 == CASE t.k = "cb" -> call(s0, t.cb, t.err)
                 [] t.k = "start" -> start(s0, t.r, TRUE, t.cb)
                 [] t.k = "stop" -> stop(s0, t.r, TRUE, t.cb)
     IN /\ Commit(s1)
        /\ uncaught' = IF s1.thrown # "" THEN s1.thrown ELSE uncaught

\* ------------------------------------------- one DecoratedRunner (Spec)
Runner == 1

\* The DecoratedRunners that exist from the beginning: those of the
\* scenarios without a Task, which decorates its plugins at its first start.
Decorated(r) == scenario \in {"runner", "multi"}

\* The listener the Task constructor puts on its _multiRunner.
ConstructorListeners(r) ==
  IF scenario \notin {"runner", "multi"} /\ \E t \in Tasks : r = multiRunner(t)
  THEN <<ErrorListener(CHOOSE t \in Tasks : r = multiRunner(t), RunnerOrigin(r))>>
  ELSE <<>>

InitCommon ==
  /\ status = [r \in Runners |-> STATUS_STOPPED]
  /\ onStart = [r \in Runners |-> <<>>]
  /\ onStop = [r \in Runners |-> <<>>]
  /\ callback = [r \in Runners |-> NoCb]
  /\ hook = [r \in Leaves |-> "none"]
  /\ tick = <<>>
  /\ startOrder = [m \in Multis |-> <<>>]
  /\ stopOrder = [m \in Multis |-> <<>>]
  /\ frozen = [m \in Multis |-> FALSE]
  /\ loop = [m \in Multis |-> NewLoop(<<>>)]
  /\ order = <<>>
  /\ callers = <<>>
  /\ regs = <<>>
  /\ collectors = [t \in Tasks |-> <<>>]
  /\ processors = [t \in Tasks |-> <<>>]
  /\ publishers = [t \in Tasks |-> <<>>]
  /\ schedules = [t \in Tasks |-> <<>>]
  /\ taskFrozen = [t \in Tasks |-> FALSE]
  /\ takes = <<>>
  /\ hasPing = [r \in Leaves |-> FALSE]
  /\ pingablePlugins = [t \in Tasks |-> <<>>]
  /\ pinging = [t \in Tasks |-> FALSE]
  /\ pingIndex = [t \in Tasks |-> 0]
  /\ pingCallback = [t \in Tasks |-> NoCb]
  /\ currentPingTarget = [t \in Tasks |-> noPingTarget]
  /\ onMetric = [r \in Leaves |-> <<>>]
  /\ pings = <<>>
  /\ pingers = <<>>
  /\ warnings = <<>>
  /\ metrics = <<>>
  /\ optionCalls = <<>>
  /\ onError = [r \in Runners |-> ConstructorListeners(r)]
  /\ nutOnError = [r \in Leaves |-> IF Decorated(r) THEN <<r>> ELSE <<>>]
  /\ errorEvents = <<>>
  /\ faults = <<>>
  /\ reached = <<>>
  /\ uncaught = ""

Init ==
  /\ scenario = "runner"
  /\ InitCommon
  /\ hasOn = [r \in Leaves |-> TRUE]
  /\ \E a, b \in BOOLEAN :
       /\ hasStart = [r \in Leaves |-> IF r = Runner THEN a ELSE TRUE]
       /\ hasStop = [r \in Leaves |-> IF r = Runner THEN b ELSE TRUE]

Next ==
  \/ \E grace \in BOOLEAN : Start(Runner, grace)
  \/ \E grace \in BOOLEAN : Stop(Runner, grace)
  \/ \E fails \in BOOLEAN : HookDone(Runner, fails)
  \/ Tick

Spec == Init /\ [][Next]_vars

\* The event loop runs every queued tick task, and a hook that was invoked
\* signals its completion.
SpecLive ==
  /\ Init
  /\ [][Next]_vars
  /\ WF_vars(Tick)
  /\ WF_vars(\E fails \in BOOLEAN : HookDone(Runner, fails))

\* ------------------------------------------- one MultiRunner (SpecMulti)
\* An external caller calls multi.addRunner(runner, {stopFirst})
AddRunner(runner, stopFirst) ==
  /\ Len(regs) < MaxChildren
  /\ runner = Len(startOrder[Multi]) + 1
  /\ Commit([addRunner(Cur, Multi, runner, stopFirst) EXCEPT !.thrown = ""])
  /\ UNCHANGED uncaught

InitMulti ==
  /\ scenario = "multi"
  /\ InitCommon
  /\ hasOn = [r \in Leaves |-> TRUE]
  /\ hasStart = [r \in Leaves |-> TRUE]
  /\ hasStop = [r \in Leaves |-> TRUE]

\* The composite's user calls addRunner at any time and start and stop with
\* {grace: true} at any time, so that a call made while the composite is busy
\* joins or follows the operation in flight; the calls a busy or idle runner
\* rejects are those of Spec.
NextMulti ==
  \/ \E r \in Leaves, stopFirst \in BOOLEAN : AddRunner(r, stopFirst)
  \/ Start(Multi, TRUE)
  \/ Stop(Multi, TRUE)
  \/ \E r \in Leaves, fails \in BOOLEAN : HookDone(r, fails)
  \/ Tick

SpecMulti == InitMulti /\ [][NextMulti]_vars

\* ----------------------------------------------------- one Task (SpecTask)
Methods == {"collect", "process", "publish", "schedule"}

\* An external caller calls task.collect/process/publish/schedule(pluginFn);
\* the factory returns a plugin instance not seen before.
Take(method) ==
  /\ Len(takes) < NumLeaves
  /\ ~taskFrozen[TaskId]
  /\ LET p == Cardinality({i \in 1..Len(takes) : takes[i].thrown = ""}) + 1
     IN Commit([takePlugins(Cur, TaskId, method, p) EXCEPT !.thrown = ""])
  /\ UNCHANGED uncaught

\* The plugins either all have start and stop methods or all have neither.
InitTask ==
  /\ scenario = "task"
  /\ InitCommon
  /\ hasOn = [r \in Leaves |-> TRUE]
  /\ \E a \in BOOLEAN :
       /\ hasStart = [r \in Leaves |-> a]
       /\ hasStop = [r \in Leaves |-> a]

\* The Task's user registers the plugins before the first start, starts the
\* Task when it is stopped and stops it when it is started; the plugins
\* complete their hooks whenever they like.
NextTask ==
  \/ \E method \in Methods : Take(method)
  \/ (status[TaskId] = STATUS_STOPPED /\ Start(TaskId, FALSE))
  \/ (status[TaskId] = STATUS_STARTED /\ Stop(TaskId, FALSE))
  \/ \E r \in Leaves, fails \in BOOLEAN : HookDone(r, fails)
  \/ Tick

SpecTask == InitTask /\ [][NextTask]_vars

\* ------------------------------------------------ ping (SpecPing)
\* An earlier accepted ping() whose callback has not been invoked.
Unresolved(j) == pingers[j].thrown = "" /\ pingers[j].n = 0

\* The callback of ping() call j waits in the process.nextTick queue.
Scheduled(j) == \E i \in 1..Len(tick) : tick[i].k = "cb" /\ tick[i].cb = Cb("pinger", j)

\* The log entry of a ping() call: whether an earlier accepted ping() was
\* unresolved (busy) and still walking its plugins (walking), whether a start
\* of the Task had begun (begun); filled in when the call returns: what it
\* threw, whether the callback ran inside the call (inside), how many plugins
\* it pinged (walked), whether it left the cursor and the pending callback
\* alone (same); n counts the callback's invocations, tgt is what
\* currentPingTarget() returned inside the callback and quiet whether no
\* plugin's ping was outstanding then.
Pinger ==
  [busy |-> \E j \in 1..Len(pingers) : Unresolved(j),
   walking |-> \E j \in 1..Len(pingers) : Unresolved(j) /\ ~Scheduled(j),
   begun |-> \E i \in 1..Len(order) : order[i].r = TaskId,
   at |-> status[TaskId],
   thrown |-> "", inside |-> FALSE, walked |-> 0, same |-> FALSE, n |-> 0, tgt |-> "",
   quiet |-> FALSE, err |-> NoErr]

PingReturned(s) ==
  LET id == Len(s.pingers) IN
  [s EXCEPT !.pingers[id].thrown = s.thrown,
            !.pingers[id].inside = s.pingers[id].n > 0,
            !.pingers[id].walked = Len(s.pings) - Len(pings),
            !.pingers[id].same = (s.pingIndex = pingIndex /\ s.pingCallback = pingCallback),
            !.thrown = ""]

\* An external caller (a schedule, usually) calls task.ping(callback); the
\* first sync plugins pinged answer before their ping() returns.
Ping(sync) ==
  /\ Len(pingers) < MaxPings
  /\ LET id == Len(pingers) + 1
         s0 == [Cur EXCEPT !.pingers = Append(@, Pinger), !.sync = sync]
     IN Commit(PingReturned(ping(s0, TaskId, Cb("pinger", id))))
  /\ UNCHANGED uncaught

\* The latest plugin.ping() invocation of a plugin (0 if none).
LastPing(plugin) ==
  LET idx == {i \in 1..Len(pings) : pings[i].p = plugin} IN
  IF idx = {} THEN 0 ELSE CHOOSE i \in idx : \A j \in idx : j <= i

RECURSIVE Sum(_)
Sum(seq) == IF seq = <<>> THEN 0 ELSE Head(seq) + Sum(Tail(seq))

\* Signals beyond the first of an invocation, and signals with an error.
PingFaults ==
  Sum([i \in 1..Len(pings) |-> IF pings[i].sig > 1 THEN pings[i].sig - 1 ELSE 0])
    + Cardinality({i \in 1..Len(warnings) : warnings[i] = WarnPingError})

\* A plugin calls the callback of its outstanding ping, err tells whether
\* with an error.
PingDone(plugin, err, sync) ==
  /\ LastPing(plugin) # 0
  /\ pings[LastPing(plugin)].sig = 0
  /\ err => PingFaults < MaxPingFaults
  /\ LET s0 == [Cur EXCEPT !.pings[LastPing(plugin)].sig = 1,
                           !.pings[LastPing(plugin)].err = err, !.sync = sync]
         s1 == pingNext(s0, TaskId, err)
     IN /\ Commit(s1)
        /\ uncaught' = IF s1.thrown # "" THEN s1.thrown ELSE uncaught

\* A plugin calls the callback of a ping it has already answered.
PingDoneAgain(plugin, sync) ==
  /\ LastPing(plugin) # 0
  /\ pings[LastPing(plugin)].sig > 0
  /\ PingFaults < MaxPingFaults
  /\ LET s0 == [Cur EXCEPT !.pings[LastPing(plugin)].sig = @ + 1, !.sync = sync]
         s1 == pingNext(s0, TaskId, FALSE)
     IN /\ Commit(s1)
        /\ uncaught' = IF s1.thrown # "" THEN s1.thrown ELSE uncaught

\* An external caller registers a plugin before the first start; the factory
\* returns a plugin instance not seen before, with or without a ping method.
TakePing(method, pingable) ==
  /\ Len(takes) < MaxPingPlugins
  /\ ~taskFrozen[TaskId]
  /\ LET p == Len(takes) + 1
     IN Commit([takePlugins([Cur EXCEPT !.hasPing[p] = pingable], TaskId, method, p)
                  EXCEPT !.thrown = ""])
  /\ UNCHANGED uncaught

\* The plugins have no start and no stop method.
InitPing ==
  /\ scenario = "ping"
  /\ InitCommon
  /\ hasOn = [r \in Leaves |-> TRUE]
  /\ hasStart = [r \in Leaves |-> FALSE]
  /\ hasStop = [r \in Leaves |-> FALSE]

SyncChoices == 0..Len(pingablePlugins[TaskId])

\* Plugins are registered, the Task is started, pings are requested before
\* the start and after it, also while an earlier ping is unresolved, and
\* every plugin answers each of its pings once, without an error.
NextPing ==
  \/ \E method \in Methods, pingable \in BOOLEAN : TakePing(method, pingable)
  \/ (status[TaskId] = STATUS_STOPPED /\ Start(TaskId, FALSE))
  \/ \E sync \in SyncChoices : (status[TaskId] # STATUS_STARTING /\ Ping(sync))
  \/ \E plugin \in Leaves, sync \in SyncChoices : PingDone(plugin, FALSE, sync)
  \/ Tick

SpecPing == InitPing /\ [][NextPing]_vars

\* Plugins with a ping method are registered, the Task is started and then
\* stopped, it is pinged at any time, and every plugin answers each of its
\* pings once, later and without an error.
NextPingStop ==
  \/ \E method \in Methods : TakePing(method, TRUE)
  \/ (status[TaskId] = STATUS_STOPPED /\ Start(TaskId, FALSE))
  \/ (status[TaskId] = STATUS_STARTED /\ Stop(TaskId, FALSE))
  \/ (Len(pingers) < MaxStopPings /\ Ping(0))
  \/ \E plugin \in Leaves : PingDone(plugin, FALSE, 0)
  \/ Tick

SpecPingStop == InitPing /\ [][NextPingStop]_vars

\* As SpecPing, and a plugin may answer a ping with an error or answer it
\* again.
NextPingTwice ==
  \/ NextPing
  \/ \E plugin \in Leaves, sync \in SyncChoices : PingDone(plugin, TRUE, sync)
  \/ \E plugin \in Leaves, sync \in SyncChoices : PingDoneAgain(plugin, sync)

SpecPingTwice == InitPing /\ [][NextPingTwice]_vars

\* Plugins with a ping method are registered, the Task is started and then
\* pinged, and every plugin answers each of its pings once, with or without
\* an error.
NextPingError ==
  \/ \E method \in Methods : TakePing(method, TRUE)
  \/ (status[TaskId] = STATUS_STOPPED /\ Start(TaskId, FALSE))
  \/ \E sync \in SyncChoices :
       (status[TaskId] = STATUS_STARTED /\ Len(pingers) < MaxErrorPings /\ Ping(sync))
  \/ \E plugin \in Leaves, err \in BOOLEAN, sync \in SyncChoices : PingDone(plugin, err, sync)
  \/ Tick

SpecPingError == InitPing /\ [][NextPingError]_vars

\* ------------------------------------------- metrics (SpecMetric)
\* A plugin of the started Task emits a metric.
Emit(plugin) ==
  /\ Len(metrics) < MaxEmits
  /\ status[TaskId] = STATUS_STARTED
  /\ \E i \in 1..Len(takes) : takes[i].p = plugin
  /\ Commit(emitMetric(Cur, plugin))
  /\ UNCHANGED uncaught

\* Plugins are registered, the Task is started, and then its plugins emit
\* metrics.
NextMetric ==
  \/ \E method \in Methods : Take(method)
  \/ (status[TaskId] = STATUS_STOPPED /\ Start(TaskId, FALSE))
  \/ \E plugin \in Leaves : Emit(plugin)
  \/ Tick

InitMetric ==
  /\ scenario = "metric"
  /\ InitCommon
  /\ hasOn = [r \in Leaves |-> TRUE]
  /\ hasStart = [r \in Leaves |-> FALSE]
  /\ hasStop = [r \in Leaves |-> FALSE]

SpecMetric == InitMetric /\ [][NextMetric]_vars

\* ------------------------------- a Control of Tasks (SpecControl)
\* Control.task(name): a new Task is added to the Control and returned.
task(s, t) == addRunner(s, Control, t, FALSE)

\* An external caller calls control.task(); the Task is one not seen before.
CreateTask(t) ==
  /\ ~frozen[Control]
  /\ t \notin Range(startOrder[Control])
  /\ (t = Task2) => TaskId \in Range(startOrder[Control])
  /\ Commit([task(Cur, t) EXCEPT !.thrown = ""])
  /\ UNCHANGED uncaught

\* An external caller registers a plugin on a Task of the Control before
\* the Control is started; the factory returns a plugin not seen before.
TakeOn(t, method) ==
  /\ t \in Range(startOrder[Control])
  /\ Len(takes) < MaxControlPlugins
  /\ ~frozen[Control]
  /\ Commit([takePlugins(Cur, t, method, Len(takes) + 1) EXCEPT !.thrown = ""])
  /\ UNCHANGED uncaught

InitControl ==
  /\ scenario = "control"
  /\ InitCommon
  /\ hasOn = [r \in Leaves |-> TRUE]
  /\ hasStart = [r \in Leaves |-> TRUE]
  /\ hasStop = [r \in Leaves |-> TRUE]

\* The Control's user creates the Tasks and registers their plugins, then
\* starts the Control, and starts it again after a failed start; nothing
\* else calls start or stop on the Control, its Tasks or their plugins.
NextControl ==
  \/ \E t \in Tasks : CreateTask(t)
  \/ \E t \in Tasks, method \in Methods : TakeOn(t, method)
  \/ (status[Control] = STATUS_STOPPED /\ Start(Control, FALSE))
  \/ \E r \in Leaves, fails \in BOOLEAN : HookDone(r, fails)
  \/ Tick

SpecControl == InitControl /\ [][NextControl]_vars

\* ----------------------------- a Task restarted (SpecRestart)
InitRestart ==
  /\ scenario = "restart"
  /\ InitCommon
  /\ hasOn = [r \in Leaves |-> TRUE]
  /\ hasStart = [r \in Leaves |-> TRUE]
  /\ hasStop = [r \in Leaves |-> TRUE]

\* The Task's user registers the plugins before the first start, starts the
\* Task when it is stopped and stops it when it is started, again and
\* again; the plugins complete their hooks, and emit metrics while the
\* Task is started.
NextRestart ==
  \/ \E method \in Methods : (Len(takes) < MaxRestartPlugins /\ Take(method))
  \/ (status[TaskId] = STATUS_STOPPED /\ Start(TaskId, FALSE))
  \/ (status[TaskId] = STATUS_STARTED /\ Stop(TaskId, FALSE))
  \/ \E r \in Leaves, fails \in BOOLEAN : HookDone(r, fails)
  \/ \E plugin \in Leaves : Emit(plugin)
  \/ Tick

SpecRestart == InitRestart /\ [][NextRestart]_vars

\* ----------------------- Tasks started directly (SpecChild)
InitChild ==
  /\ scenario = "child"
  /\ InitCommon
  /\ hasOn = [r \in Leaves |-> TRUE]
  /\ hasStart = [r \in Leaves |-> TRUE]
  /\ hasStop = [r \in Leaves |-> TRUE]

\* The Control's user creates the Tasks and registers their plugins,
\* starts Tasks of the Control directly, and starts the Control.
NextChild ==
  \/ \E t \in Tasks : CreateTask(t)
  \/ \E t \in Tasks, method \in Methods : (Len(takes) < MaxChildPlugins /\ TakeOn(t, method))
  \/ \E t \in Tasks : (t \in Range(startOrder[Control]) /\ Start(t, FALSE))
  \/ (status[Control] = STATUS_STOPPED /\ Start(Control, FALSE))
  \/ \E r \in Leaves, fails \in BOOLEAN : HookDone(r, fails)
  \/ Tick

SpecChild == InitChild /\ [][NextChild]_vars

\* ----------------------------------- 'error' events (SpecError)
\* A plugin emits 'error' on its own, outside of any start, stop or ping.
\* The log keeps whether the plugin had been decorated, whether its Task
\* belonged to the Control, whether a ping was in flight, and whether the
\* statuses and the ping cursor are what they were before.
EmitError(p) ==
  /\ Len(faults) < MaxErrors
  /\ hasOn[p]
  /\ \E i \in 1..Len(takes) : takes[i].p = p /\ takes[i].thrown = ""
  /\ LET e == Len(faults) + 1
         s1 == nutEmitError(Cur, p, e)
         same == /\ s1.status = status
                 /\ s1.pinging = pinging
                 /\ s1.pingIndex = pingIndex
                 /\ s1.pingCallback = pingCallback
                 /\ s1.currentPingTarget = currentPingTarget
                 /\ s1.pingablePlugins = pingablePlugins
         s2 == [s1 EXCEPT !.faults = Append(@,
                  [p |-> p, init |-> nutOnError[p] # <<>>,
                   owned |-> \E i \in 1..Len(takes) :
                               takes[i].p = p /\ takes[i].t \in Range(startOrder[Control]),
                   pinging |-> \E t \in Tasks : pinging[t],
                   same |-> same, unhandled |-> s1.thrown # ""]),
                  !.thrown = ""]
     IN /\ Commit(s2)
        /\ uncaught' = IF s1.thrown # "" THEN s1.thrown ELSE uncaught

\* The Control's user calls control.on('error', listener).
Listen ==
  /\ onError[Control] = <<>>
  /\ Commit([Cur EXCEPT !.onError[Control] = Append(@, UserListener)])
  /\ UNCHANGED uncaught

\* The plugins have no start and no stop method; either all of them are
\* event emitters or none is.
InitError ==
  /\ scenario = "error"
  /\ InitCommon
  /\ \E a \in BOOLEAN : hasOn = [r \in Leaves |-> a]
  /\ hasStart = [r \in Leaves |-> FALSE]
  /\ hasStop = [r \in Leaves |-> FALSE]

\* The Control's user creates a Task, registers its plugins, listens to
\* the Control's errors or not, starts the Control and pings the Task; the
\* plugins have a ping method, answer their pings later and without an
\* error, and emit 'error' at any time.
NextError ==
  \/ CreateTask(TaskId)
  \/ \E method \in Methods : (Len(takes) < MaxErrorPlugins /\ TakePing(method, TRUE))
  \/ Listen
  \/ (status[Control] = STATUS_STOPPED /\ Start(Control, FALSE))
  \/ (status[TaskId] # STATUS_STARTING /\ Len(pingers) < MaxErrorPings /\ Ping(0))
  \/ \E plugin \in Leaves : PingDone(plugin, FALSE, 0)
  \/ \E plugin \in Leaves : EmitError(plugin)
  \/ Tick

SpecError == InitError /\ [][NextError]_vars

\* ----------------------------------- plugin options (SpecOptions)
OptionKeys == {"foo", "bar"}

OptionValues == {1, 2}

\* The option objects a caller may pass.
OptionObjects == UNION {[K -> OptionValues] : K \in SUBSET OptionKeys}

\* An external caller calls task.collect/process/publish/schedule
\* ([[pluginFn, elOptions]], options); each of the two option arguments is
\* an object of the caller (references 1 and 2) or absent.
TakePair(method, elOptions, hasEl, options, hasOptions) ==
  /\ Len(optionCalls) < MaxOptionCalls
  /\ ~hasEl => elOptions = NoProps
  /\ ~hasOptions => options = NoProps
  /\ LET p == Cardinality({i \in 1..Len(takes) : takes[i].thrown = ""}) + 1
         heap == <<elOptions, options>>
         el1 == IF hasEl THEN 1 ELSE null
         arg2 == IF hasOptions THEN 2 ELSE null
         s0 == takePluginsPair(Cur, TaskId, method, heap, el1, arg2, p)
         id == Len(s0.optionCalls)
         s1 == [s0 EXCEPT !.optionCalls[id] =
                  [given |-> @.given, fresh |-> @.fresh,
                   el |-> elOptions, hasEl |-> hasEl, elAfter |-> @.heap[1],
                   options |-> options, hasOptions |-> hasOptions, optionsAfter |-> @.heap[2]],
                  !.thrown = ""]
     IN Commit(s1)
  /\ UNCHANGED uncaught

InitOptions ==
  /\ scenario = "options"
  /\ InitCommon
  /\ hasOn = [r \in Leaves |-> TRUE]
  /\ hasStart = [r \in Leaves |-> FALSE]
  /\ hasStop = [r \in Leaves |-> FALSE]

NextOptions ==
  \E method \in Methods, elOptions, options \in OptionObjects, hasEl, hasOptions \in BOOLEAN :
    TakePair(method, elOptions, hasEl, options, hasOptions)

SpecOptions == InitOptions /\ [][NextOptions]_vars

\* ------------------------------- registration at any time (SpecFreeze)
AllMethods == Methods \cup {"use"}

\* An external caller calls task.collect/process/publish/schedule/use at any
\* time; the factory, if called, returns a plugin instance not seen before.
TakeAny(method) ==
  /\ Len(takes) < MaxTakes
  /\ LET p == Cardinality({i \in 1..Len(takes) : takes[i].thrown = ""}) + 1
     IN Commit([takePlugins(Cur, TaskId, method, p) EXCEPT !.thrown = ""])
  /\ UNCHANGED uncaught

InitFreeze ==
  /\ scenario = "freeze"
  /\ InitCommon
  /\ hasOn = [r \in Leaves |-> TRUE]
  /\ hasStart = [r \in Leaves |-> TRUE]
  /\ hasStop = [r \in Leaves |-> TRUE]

\* The Task's user registers plugins at any time, starts the Task when it
\* is stopped and stops it when it is started.
NextFreeze ==
  \/ \E method \in AllMethods : TakeAny(method)
  \/ (status[TaskId] = STATUS_STOPPED /\ Start(TaskId, FALSE))
  \/ (status[TaskId] = STATUS_STARTED /\ Stop(TaskId, FALSE))
  \/ \E r \in Leaves, fails \in BOOLEAN : HookDone(r, fails)
  \/ Tick

SpecFreeze == InitFreeze /\ [][NextFreeze]_vars

\* ---------------------------------------------------------------- claims
CallerIds == 1..Len(callers)

\* The hook invocations of runner r, of kind op, logged after index i.
HooksAfter(r, op, i) ==
  {j \in (i + 1)..Len(order) : order[j].r = r /\ order[j].op = op}

\* A rejected call: it threw msg, invoked no hook, left the status as it
\* found it, and its callback has not been invoked.
Rejected(c, msg) ==
  c.thrown = msg /\ ~c.ran /\ c.ret = c.at /\ c.n = 0

\* C1: a non-grace start() in state Started or Starting throws 'Cannot
\* start() before stop()', in state Stopping 'Cannot start() before stop()
\* has completed'; a non-grace stop() in state Stopped or Stopping throws
\* 'Cannot stop() before start()', in state Starting 'Cannot stop() before
\* start() has completed'.  Such a call invokes no hook, leaves the status
\* unchanged and its callback is never invoked.
C1_NonGraceRejected ==
  \A i \in CallerIds :
    LET c == callers[i] IN
    ~c.grace =>
      /\ (c.op = "start" /\ c.at \in {STATUS_STARTED, STATUS_STARTING})
           => Rejected(c, ErrStartBeforeStop)
      /\ (c.op = "start" /\ c.at = STATUS_STOPPING)
           => Rejected(c, ErrStartBeforeStopCompleted)
      /\ (c.op = "stop" /\ c.at \in {STATUS_STOPPED, STATUS_STOPPING})
           => Rejected(c, ErrStopBeforeStart)
      /\ (c.op = "stop" /\ c.at = STATUS_STARTING)
           => Rejected(c, ErrStopBeforeStartCompleted)

\* Every one of the four rejections has happened, while the callbacks of
\* accepted calls have run.
C1_Witness ==
  /\ Len(callers) = MaxCalls
  /\ callers[1].op = "start" /\ callers[1].n = 1
  /\ callers[2].thrown = ErrStartBeforeStop
  /\ callers[3].thrown = ErrStopBeforeStartCompleted

\* C7: start({grace: true}) and stop({grace: true}) never throw, whatever
\* the status and the calls before them, also when re-issued on a later tick
\* after having been deferred.
C7_GraceNeverThrows ==
  /\ uncaught = ""
  /\ \A i \in CallerIds : callers[i].grace => callers[i].thrown = ""

\* A grace start was deferred while Stopping, re-issued, and has completed.
C7_Witness ==
  \E i \in CallerIds :
    LET c == callers[i] IN
    c.grace /\ c.op = "start" /\ c.at = STATUS_STOPPING /\ c.n = 1 /\ c.err # NoErr

\* C8: a start({grace: true}) that meets Started or Starting invokes no
\* start hook; meeting Started it leaves the status alone and its callback
\* gets success; meeting Starting its callback gets the outcome of the start
\* in flight.  Symmetrically for stop({grace: true}) meeting Stopped or
\* Stopping.
C8_GraceJoins ==
  \A i \in CallerIds :
    LET c == callers[i] IN
    c.grace =>
      /\ (c.op = "start" /\ c.at = STATUS_STARTED)
           => ~c.ran /\ c.ret = c.at /\ c.n <= 1 /\ (c.n = 1 => c.err = NoErr)
      /\ (c.op = "stop" /\ c.at = STATUS_STOPPED)
           => ~c.ran /\ c.ret = c.at /\ c.n <= 1 /\ (c.n = 1 => c.err = NoErr)
      /\ (c.op = "start" /\ c.at = STATUS_STARTING)
           => /\ ~c.ran /\ c.ret = c.at /\ c.n <= 1
              /\ order[c.hk].op = "_start"
              /\ HooksAfter(c.r, "_start", c.hk) # {} => order[c.hk].done
              /\ c.n = 1 => order[c.hk].done /\ c.err = order[c.hk].err
      /\ (c.op = "stop" /\ c.at = STATUS_STOPPING)
           => /\ ~c.ran /\ c.ret = c.at /\ c.n <= 1
              /\ order[c.hk].op = "_stop"
              /\ c.n = 1 => order[c.hk].done /\ c.err = order[c.hk].err

\* A grace start joined a start that then failed and got its error, and a
\* grace stop joined a stop in flight and got its outcome.
C8_Witness ==
  /\ \E i \in CallerIds :
       LET c == callers[i] IN
       c.grace /\ c.op = "start" /\ c.at = STATUS_STARTING /\ c.n = 1 /\ c.err # NoErr
  /\ \E i \in CallerIds :
       LET c == callers[i] IN
       c.grace /\ c.op = "stop" /\ c.at = STATUS_STOPPED /\ c.n = 1

\* No other call intervenes with call i: it is the latest call, and every
\* earlier one was settled, or owned the transition in flight, when i was made.
Undisturbed(i) == i = Len(callers) /\ callers[i].alone

\* C9: a start({grace: true}) that meets Stopping invokes no start hook
\* before the stop in flight has completed; when no other call intervenes
\* the start hook is then invoked exactly once and the call's callback gets
\* that start's outcome.  A stop({grace: true}) that meets Starting invokes
\* the stop hook only after the start in flight has completed: exactly once
\* if that start succeeded (not at all if it failed), and its callback runs
\* after that stop has completed.
C9_GraceDefers ==
  \A i \in CallerIds :
    LET c == callers[i] IN
    c.grace =>
      /\ (c.op = "start" /\ c.at = STATUS_STOPPING) =>
           LET later == HooksAfter(c.r, "_start", c.hk) IN
           /\ ~c.ran /\ c.n <= 1
           /\ order[c.hk].op = "_stop"
           /\ later # {} => order[c.hk].done
           /\ Undisturbed(i) =>
                /\ Cardinality(later) <= 1
                /\ c.n = 1 => /\ Cardinality(later) = 1
                              /\ \A j \in later : order[j].done /\ c.err = order[j].err
      /\ (c.op = "stop" /\ c.at = STATUS_STARTING) =>
           LET later == HooksAfter(c.r, "_stop", c.hk) IN
           /\ ~c.ran /\ c.n <= 1
           /\ order[c.hk].op = "_start"
           /\ later # {} => order[c.hk].done
           /\ Undisturbed(i) =>
                /\ Cardinality(later) <= 1
                /\ later # {} => order[c.hk].err = NoErr
                /\ c.n = 1 => /\ order[c.hk].done
                              /\ Cardinality(later) = (IF order[c.hk].err = NoErr THEN 1 ELSE 0)
                              /\ \A j \in later : order[j].done /\ c.err = order[j].err

\* A deferred grace start was re-issued after the stop and got the failure
\* of the start it caused.
C9_Witness ==
  \E i \in CallerIds :
    LET c == callers[i] IN
    /\ c.grace /\ c.op = "start" /\ c.at = STATUS_STOPPING /\ Undisturbed(i)
    /\ c.n = 1 /\ c.err # NoErr
    /\ Cardinality(HooksAfter(c.r, "_start", c.hk)) = 1

\* ------------------------------------------------- claims on MultiRunner
\* The composite's latest _start/_stop invocation, and the children's hook
\* invocations it has caused so far.
MultiHook == LastHook(order, Multi)

Cycle(op) == MultiHook > 0 /\ order[MultiHook].op = op

Seg == SubSeq(order, MultiHook + 1, Len(order))

IsStartEntry(e) == e.op = "_start"

IsStopEntry(e) == e.op = "_stop"

SegStarts == SelectSeq(Seg, IsStartEntry)

SegStops == SelectSeq(Seg, IsStopEntry)

RunnersOf(entries) == [i \in 1..Len(entries) |-> entries[i].r]

ErrorsOf(entries) == combine([i \in 1..Len(entries) |-> entries[i].err])

AllDone(entries) == \A i \in 1..Len(entries) : entries[i].done

\* One at a time: every invocation but the latest has completed.
OneAtATime(entries) == \A i \in 1..(Len(entries) - 1) : entries[i].done

IsPrefix(a, b) == Len(a) <= Len(b) /\ a = SubSeq(b, 1, Len(a))

\* A child's start has failed in the composite's current start.
StartFailed ==
  /\ Cycle("_start")
  /\ SegStarts # <<>>
  /\ SegStarts[Len(SegStarts)].err # NoErr

\* The accepted external call that owns the composite's latest transition.
Owner(i) ==
  /\ callers[i].r = Multi
  /\ callers[i].ran
  /\ callers[i].hk = MultiHook

\* C2: when a child's start fails during the composite's start, the stop
\* hooks invoked are those of exactly the children whose start had completed
\* successfully, in stop order; the failed child and the children after it
\* in start order get no stop hook, the latter no start hook either, and
\* they remain Stopped.
C2_RollbackStopsStarted ==
  StartFailed =>
    LET k == Len(SegStarts)
        started == {startOrder[Multi][j] : j \in 1..(k - 1)}
        WasStarted(r) == r \in started
        expected == SelectSeq(stopOrder[Multi], WasStarted)
    IN /\ RunnersOf(SegStarts) = SubSeq(startOrder[Multi], 1, k)
       /\ IsPrefix(RunnersOf(SegStops), expected)
       /\ order[MultiHook].done => RunnersOf(SegStops) = expected
       /\ \A j \in k..Len(startOrder[Multi]) :
            /\ \A i \in 1..Len(SegStops) : SegStops[i].r # startOrder[Multi][j]
            /\ status[startOrder[Multi][j]] = STATUS_STOPPED
       /\ \A j \in (k + 1)..Len(startOrder[Multi]) :
            \A i \in 1..Len(Seg) : Seg[i].r # startOrder[Multi][j]

\* Of three children the second failed to start, the first was stopped by
\* the rollback, and the composite's start has completed.
C2_Witness ==
  /\ StartFailed
  /\ Len(startOrder[Multi]) = 3
  /\ Len(SegStarts) = 2
  /\ Len(SegStops) = 1
  /\ order[MultiHook].done

\* C3: when a child's start fails during the composite's start, the
\* composite's start callback is invoked exactly once, after every rollback
\* stop has completed, with an error made of the start failure and of every
\* rollback stop's error; the composite is then Stopped.
C3_RollbackReported ==
  \A i \in CallerIds :
    LET c == callers[i] IN
    /\ (c.r = Multi /\ c.op = "start" /\ c.ran) =>
         /\ c.n <= 1
         /\ c.n = 1 => order[c.hk].done /\ c.err = order[c.hk].err
         /\ (c.n = 1 /\ c.err # NoErr) => c.st = STATUS_STOPPED
    /\ (StartFailed /\ Owner(i)) =>
         /\ c.n = (IF order[MultiHook].done THEN 1 ELSE 0)
         /\ c.n = 1 =>
              /\ AllDone(Seg)
              /\ c.err = ErrorsOf(Seg)
              /\ c.err # NoErr
              /\ status[Multi] = STATUS_STOPPED

\* The start of the second child and the rollback stop of the first both
\* failed, and the caller got both errors.
C3_Witness ==
  \E i \in CallerIds :
    /\ StartFailed /\ Owner(i)
    /\ callers[i].n = 1
    /\ Len(callers[i].err) = 2
    /\ Len(SegStops) = 1

\* C4: the composite's stop invokes stop on every child exactly once, one
\* at a time in stop order, also after a child's stop failed; its callback
\* is invoked after the last child's stop has completed, with no error if
\* none failed and otherwise with an error made of every failure.
C4_StopSweep ==
  Cycle("_stop") =>
    /\ SegStarts = <<>>
    /\ IsPrefix(RunnersOf(SegStops), stopOrder[Multi])
    /\ OneAtATime(SegStops)
    /\ order[MultiHook].done => RunnersOf(SegStops) = stopOrder[Multi]
    /\ \A i \in CallerIds :
         Owner(i) =>
           /\ callers[i].n = (IF order[MultiHook].done THEN 1 ELSE 0)
           /\ callers[i].n = 1 =>
                /\ AllDone(SegStops)
                /\ callers[i].err = ErrorsOf(SegStops)

\* Three children were stopped, the first two stops failed, and the caller
\* got both errors.
C4_Witness ==
  /\ Cycle("_stop")
  /\ Len(SegStops) = 3
  /\ SegStops[1].err # NoErr
  /\ SegStops[2].err # NoErr
  /\ SegStops[3].err = NoErr
  /\ \E i \in CallerIds : Owner(i) /\ callers[i].n = 1 /\ Len(callers[i].err) = 2

\* The children registered so far, in registration order.
Accepted(e) == e.thrown = ""

Registered == SelectSeq(regs, Accepted)

\* C5: the composite starts its children in registration order, one at a
\* time: a child's start hook is invoked only after the start of the child
\* before it has completed successfully; the callback reports success only
\* when every child is Started.
C5_StartSequential ==
  /\ Cycle("_start") =>
       /\ IsPrefix(RunnersOf(SegStarts), RunnersOf(Registered))
       /\ \A j \in 1..(Len(SegStarts) - 1) :
            SegStarts[j].done /\ SegStarts[j].err = NoErr
       /\ SegStops # <<>> => StartFailed
  /\ status[Multi] = STATUS_STARTED =>
       \A j \in 1..Len(Registered) : status[Registered[j].r] = STATUS_STARTED
  /\ \A i \in CallerIds :
       LET c == callers[i] IN
       (c.r = Multi /\ c.op = "start" /\ c.ran /\ c.n = 1 /\ c.err = NoErr)
         => c.st = STATUS_STARTED

\* Three children were started and the caller was told of the success.
C5_Witness ==
  /\ Cycle("_start")
  /\ Len(SegStarts) = 3
  /\ \E i \in CallerIds : Owner(i) /\ callers[i].n = 1 /\ callers[i].err = NoErr

RECURSIVE Reverse(_)
Reverse(seq) == IF seq = <<>> THEN <<>> ELSE Append(Reverse(Tail(seq)), Head(seq))

WithStopFirst(e) == e.stopFirst

WithoutStopFirst(e) == ~e.stopFirst

\* C6: in the stop order every child registered with stopFirst precedes
\* every child registered without it; the children without it keep their
\* registration order, those with it are in reverse registration order.  The
\* start order is the registration order.
C6_Orders ==
  /\ startOrder[Multi] = RunnersOf(Registered)
  /\ stopOrder[Multi] = RunnersOf(Reverse(SelectSeq(Registered, WithStopFirst)))
                   \o RunnersOf(SelectSeq(Registered, WithoutStopFirst))

\* Of three children the last two were registered with stopFirst; they were
\* stopped in the order 3, 2, 1.
C6_Witness ==
  /\ Len(Registered) = 3
  /\ ~Registered[1].stopFirst /\ Registered[2].stopFirst /\ Registered[3].stopFirst
  /\ Cycle("_stop")
  /\ order[MultiHook].done
  /\ RunnersOf(SegStops) = <<3, 2, 1>>

\* The plugins registered through the given method, in registration order.
IsTaken(e) == e.thrown = ""

Taken(method) ==
  LET ok == SelectSeq(takes, IsTaken)
      idx == {i \in 1..Len(ok) : ok[i].method = method}
      RECURSIVE pick(_)
      pick(i) == IF i > Len(ok) THEN <<>>
                 ELSE IF i \in idx THEN <<ok[i].p>> \o pick(i + 1)
                 ELSE pick(i + 1)
  IN pick(1)

\* The place of a plugin's group in the Task's stop order.
StopRank(p) ==
  CASE p \in Range(Taken("schedule")) -> 0
    [] p \in Range(Taken("collect")) -> 1
    [] p \in Range(Taken("process")) -> 2
    [] p \in Range(Taken("publish")) -> 3
    [] OTHER -> 4

\* C10: whatever the order of the collect/process/publish/schedule calls,
\* a start of the Task starts the collectors, then the processors, then the
\* publishers, each group in registration order, and the schedules last,
\* and a successful start has started them all; a stop of the Task stops
\* every plugin once: the schedules first, then the collectors, then the
\* processors, then the publishers.
C10_TaskOrder ==
  LET all == Taken("collect") \o Taken("process") \o Taken("publish") \o Taken("schedule")
      stops == RunnersOf(SegStops)
  IN
  /\ Cycle("_start") =>
       /\ IsPrefix(RunnersOf(SegStarts), all)
       /\ (order[MultiHook].done /\ order[MultiHook].err = NoErr)
            => RunnersOf(SegStarts) = all
  /\ Cycle("_stop") =>
       /\ \A i, j \in 1..Len(stops) : i < j =>
            /\ stops[i] # stops[j]
            /\ StopRank(stops[i]) <= StopRank(stops[j])
       /\ \A i \in 1..Len(stops) : StopRank(stops[i]) < 4
       /\ order[MultiHook].done => Range(stops) = Range(all)

IsLeafEntry(e) == e.r \in Leaves

\* A schedule, a publisher, a processor and a collector were registered in
\* this order (plugins 1, 2, 3, 4); the Task started 4, 3, 2, 1 and then
\* stopped 1, 4, 3, 2.
C10_Witness ==
  /\ [i \in 1..Len(takes) |-> takes[i].method]
       = <<"schedule", "publish", "process", "collect">>
  /\ Cycle("_stop")
  /\ order[MultiHook].done
  /\ status[TaskId] = STATUS_STOPPED
  /\ RunnersOf(SelectSeq(order, IsLeafEntry)) = <<4, 3, 2, 1, 1, 4, 3, 2>>
  /\ RunnersOf(SegStops) = <<1, 4, 3, 2>>
  /\ RunnersOf(SegStarts) = <<>>

Rejections == {i \in 1..Len(regs) : regs[i].thrown # ""}

\* C18: an addRunner() call throws 'Cannot addRunner() after start()' if and
\* only if a start of the composite had begun before it, whatever the
\* composite's status at the call (so also after a stop and after a failed
\* start); the start order and the stop order hold the children of the
\* accepted calls and nothing of a rejected one.
C18_AddRunnerFrozen ==
  /\ \A i \in 1..Len(regs) :
       regs[i].thrown = (IF regs[i].begun THEN ErrAddRunnerAfterStart ELSE "")
  /\ Len(startOrder[Multi]) = Len(regs) - Cardinality(Rejections)
  /\ Len(stopOrder[Multi]) = Len(startOrder[Multi])
  /\ \A i \in Rejections :
       /\ \A j \in 1..Len(startOrder[Multi]) : startOrder[Multi][j] # regs[i].r
       /\ \A j \in 1..Len(stopOrder[Multi]) : stopOrder[Multi][j] # regs[i].r

\* A child was added before the first start; one addRunner() was rejected
\* while the composite was busy or Started and one when it was Stopped again.
C18_Witness ==
  /\ Len(regs) = 3
  /\ regs[1].thrown = ""
  /\ regs[2].thrown # "" /\ ~regs[2].idle
  /\ regs[3].thrown # "" /\ regs[3].idle
  /\ startOrder[Multi] = <<1>> /\ stopOrder[Multi] = <<1>>

\* ----------------------------------------------- claims about ping
RoleMethods == [collect |-> collectors[TaskId], process |-> processors[TaskId],
                publish |-> publishers[TaskId], schedule |-> schedules[TaskId]]

\* C17: a collect/process/publish/schedule/use call throws 'Cannot
\* <method>() after task has been frozen' if and only if a start of the Task
\* had begun before it, whatever the Task's status at the call; a rejected
\* call does not call the plugin factory, and the four role sequences hold
\* the plugins of the accepted calls only.  The frozen flag is set from the
\* first start on.
C17_FrozenRegistration ==
  /\ \A i \in 1..Len(takes) :
       /\ takes[i].thrown = (IF takes[i].begun THEN ErrTaskFrozen(takes[i].method) ELSE "")
       /\ takes[i].thrown # "" => takes[i].p = 0
       /\ takes[i].thrown = "" => takes[i].p # 0
  /\ \A method \in Methods : RoleMethods[method] = Taken(method)
  /\ taskFrozen[TaskId] = (\E i \in 1..Len(order) : order[i].r = TaskId)

\* A collector was registered before the first start; a publish() was
\* rejected while the Task was Started and a use() after the Task had stopped.
C17_Witness ==
  /\ Len(takes) = 3
  /\ takes[1].method = "collect" /\ takes[1].thrown = ""
  /\ takes[2].method = "publish" /\ takes[2].thrown # "" /\ takes[2].at = STATUS_STARTED
  /\ takes[3].method = "use" /\ takes[3].thrown # "" /\ takes[3].at = STATUS_STOPPED
  /\ collectors[TaskId] = <<1>> /\ publishers[TaskId] = <<>>

HasPingMethod(plugin) == hasPing[plugin]

\* The collectors, processors and publishers that have a ping method, each
\* group in registration order.
PingOrder ==
  SelectSeq(Taken("collect") \o Taken("process") \o Taken("publish"), HasPingMethod)

\* The plugin.ping() invocations made for ping() call j, in order.
PingsOf(j) ==
  LET ForJ(e) == e.by = j IN SelectSeq(pings, ForJ)

PluginsOf(entries) == [i \in 1..Len(entries) |-> entries[i].p]

Unanswered(entries) == {i \in 1..Len(entries) : entries[i].sig = 0}

\* C11: the plugins pinged for one ping() are, in this order, collectors,
\* then processors, then publishers that have a ping method, each group in
\* registration order: no plugin without a ping method and no schedule is
\* ever pinged, and no pingable plugin is passed over.
C11_PingOrder ==
  /\ \A j \in AcceptedPings(pingers) : IsPrefix(PluginsOf(PingsOf(j)), PingOrder)
  /\ \A i \in 1..Len(pings) :
       /\ hasPing[pings[i].p]
       /\ pings[i].p \notin Range(Taken("schedule"))
       /\ pings[i].by \in AcceptedPings(pingers)

\* A publisher was registered before a collector, both with a ping method;
\* the ping cycle pinged the collector, then the publisher, and resolved.
C11_Witness ==
  /\ Taken("publish") = <<1>> /\ Taken("collect") = <<2>>
  /\ hasPing[1] /\ hasPing[2]
  /\ \E j \in AcceptedPings(pingers) :
       PluginsOf(PingsOf(j)) = <<2, 1>> /\ pingers[j].n = 1

\* C12 (as claimed): a signal beyond a plugin's first is reported as a
\* warning and does not advance the cursor: at most one plugin of a cycle is
\* unanswered at any time, the ping callback is scheduled only when every
\* plugin pinged has answered, and there is one 'more than once' warning for
\* each extra signal.
C12_ExtraSignalIgnored ==
  /\ \A j \in AcceptedPings(pingers) :
       /\ Cardinality(Unanswered(PingsOf(j))) <= 1
       /\ (pingers[j].n > 0 \/ Scheduled(j)) => Unanswered(PingsOf(j)) = {}
  /\ Cardinality({i \in 1..Len(warnings) : warnings[i] = WarnPingTwice})
       = Sum([i \in 1..Len(pings) |-> IF pings[i].sig > 1 THEN pings[i].sig - 1 ELSE 0])

\* C13: a ping() called while an earlier accepted ping() is still walking
\* its plugins throws 'Cannot ping() before completion of previous ping'; it
\* pings no plugin, leaves the cursor and the pending callback as they were
\* and its callback is never invoked; the cycle in progress pings every
\* plugin of the cursor and resolves once.
C13_PingRejected ==
  /\ \A i \in 1..Len(pingers) :
       /\ pingers[i].walking =>
            /\ pingers[i].thrown = ErrPing
            /\ pingers[i].walked = 0
            /\ pingers[i].same
            /\ pingers[i].n = 0
       /\ pingers[i].thrown # "" => pingers[i].thrown = ErrPing /\ pingers[i].walking
  /\ \A j \in AcceptedPings(pingers) :
       /\ pingers[j].n <= 1
       /\ (pingers[j].n = 1 /\ pingers[j].begun) => PluginsOf(PingsOf(j)) = PingOrder

\* A ping() was rejected while the first one was walking two plugins, and
\* the first one has resolved after pinging both.
C13_Witness ==
  /\ Len(pingers) = 2
  /\ pingers[1].thrown = "" /\ pingers[1].n = 1
  /\ pingers[2].thrown = ErrPing
  /\ Len(PingsOf(1)) = 2

\* C14 (as claimed): at most one accepted ping() is unresolved at any time;
\* a ping() called while an earlier accepted one's callback has not been
\* invoked is rejected.
C14_OneUnresolved ==
  /\ Cardinality({j \in 1..Len(pingers) : Unresolved(j)}) <= 1
  /\ \A i \in 1..Len(pingers) : pingers[i].busy => pingers[i].thrown = ErrPing

\* C15: the callback of ping() is not invoked before ping() returns, also
\* when every plugin answers before its ping() returns and when the cursor's
\* list is empty.
C15_PingCallbackDeferred ==
  \A i \in 1..Len(pingers) : ~pingers[i].inside

\* Two plugins were pinged and answered inside the ping() call; the
\* callback ran on a later turn.
C15_Witness ==
  \E i \in 1..Len(pingers) :
    /\ pingers[i].walked = 2
    /\ Len(pingablePlugins[TaskId]) = 2
    /\ pingers[i].n = 1
    /\ ~pingers[i].inside

\* The cycle of ping() call j, against the list it is expected to walk.
CycleWalks(j, expected) ==
  /\ IsPrefix(PluginsOf(PingsOf(j)), expected)
  /\ Cardinality(Unanswered(PingsOf(j))) <= 1
  /\ pingers[j].n <= 1
  /\ (pingers[j].n = 1 \/ Scheduled(j)) =>
       /\ PluginsOf(PingsOf(j)) = expected
       /\ Unanswered(PingsOf(j)) = {}

\* The ping() calls made when no earlier accepted one was unresolved.
Sequenced == {j \in AcceptedPings(pingers) : ~pingers[j].busy}

\* C16 (as claimed): with every plugin answering once, every ping cycle
\* started when the previous callback had run walks the plugins that have a
\* ping method from the first one, one at a time, each once, and its callback
\* is invoked once, after the last plugin answered.
C16_EveryCycle ==
  \A j \in Sequenced : CycleWalks(j, PingOrder)

\* C16 (amended): the same for the ping() calls made once a start of the
\* Task has begun; a ping() before the first start finds the cursor's list
\* empty, pings no plugin and has its callback invoked once.
C16_CycleAfterStart ==
  \A j \in Sequenced :
    CycleWalks(j, IF pingers[j].begun THEN PingOrder ELSE <<>>)

\* Two cycles, the second started after the first one's callback had run,
\* have each pinged the same two plugins and resolved.
C16_Witness ==
  /\ Len(pingers) = 2
  /\ Sequenced = {1, 2}
  /\ pingers[1].begun
  /\ pingers[1].n = 1 /\ pingers[2].n = 1
  /\ Len(PingOrder) = 2
  /\ PluginsOf(PingsOf(1)) = PingOrder
  /\ PluginsOf(PingsOf(2)) = PingOrder

RoleNames == [collect |-> "Collector", process |-> "Processor", publish |-> "Publisher"]

\* The name of a registered collector, processor or publisher.
NameOf(plugin) ==
  LET i == CHOOSE k \in 1..Len(takes) : takes[k].p = plugin
      index == Cardinality({k \in 1..(i - 1) :
                 takes[k].method = takes[i].method /\ takes[k].thrown = ""})
  IN "<Task(anonymous):" \o RoleNames[takes[i].method] \o "[" \o ToString(index)
       \o "]:Plugin>"

\* C19: currentPingTarget() is '<Task(anonymous):None>' whenever no plugin's
\* ping is outstanding (before the first ping, once the cursor is exhausted,
\* inside the ping callback); while a plugin's ping is outstanding it is
\* that plugin's name, with the plugin's index among all plugins of its role.
C19_PingTarget ==
  /\ Unanswered(pings) = {} => currentPingTarget[TaskId] = "<Task(anonymous):None>"
  /\ \A i \in Unanswered(pings) : currentPingTarget[TaskId] = NameOf(pings[i].p)
  /\ \A j \in 1..Len(pingers) :
       (pingers[j].n > 0 /\ pingers[j].quiet) => pingers[j].tgt = "<Task(anonymous):None>"

\* The second of two collectors is being pinged; the first has no ping
\* method.
C19_Witness ==
  /\ Taken("collect") = <<1, 2>>
  /\ ~hasPing[1] /\ hasPing[2]
  /\ \E i \in Unanswered(pings) : pings[i].p = 2
  /\ currentPingTarget[TaskId] = "<Task(anonymous):Collector[1]:Plugin>"

\* ---------------------------------------------- claims about metrics
PublishAll(pubs) == [i \in 1..Len(pubs) |-> [op |-> "publish", to |-> pubs[i]]]

\* The process() and publish() calls among the calls a metric caused.
IsDelivery(c) == c.op # "release"

Deliveries(calls) == SelectSeq(calls, IsDelivery)

\* The place of a plugin in a sequence (0 if it is not in it).
IndexIn(seq, plugin) ==
  IF \E i \in 1..Len(seq) : seq[i] = plugin
  THEN CHOOSE i \in 1..Len(seq) : seq[i] = plugin ELSE 0

\* C20: in a started Task a metric emitted by a collector is passed to
\* publish() of every publisher in registration order if there is no
\* processor, and to process() of the first processor only if there is one;
\* a metric emitted by a processor but the last is passed to process() of
\* the next processor only, one emitted by the last processor to publish()
\* of every publisher in registration order.
C20_MetricRouting ==
  \A k \in 1..Len(metrics) :
    LET m == metrics[k]
        procs == Taken("process")
        pubs == Taken("publish")
        i == IndexIn(procs, m.by)
    IN /\ IndexIn(Taken("collect"), m.by) # 0 =>
            Deliveries(m.calls) = (IF procs = <<>> THEN PublishAll(pubs)
                                   ELSE <<[op |-> "process", to |-> procs[1]]>>)
       /\ (i # 0 /\ i < Len(procs)) =>
            Deliveries(m.calls) = <<[op |-> "process", to |-> procs[i + 1]]>>
       /\ (i # 0 /\ i = Len(procs)) => Deliveries(m.calls) = PublishAll(pubs)

\* With a publisher, two processors and a collector registered in this
\* order, the collector's metric went to the first processor and the last
\* processor's metric to the publisher.
C20_Witness ==
  /\ [i \in 1..Len(takes) |-> takes[i].method] = <<"publish", "process", "process", "collect">>
  /\ Len(metrics) = 2
  /\ metrics[1].by = 4 /\ Deliveries(metrics[1].calls) = <<[op |-> "process", to |-> 2]>>
  /\ metrics[2].by = 3 /\ Deliveries(metrics[2].calls) = <<[op |-> "publish", to |-> 1]>>

Releases(calls) == {i \in 1..Len(calls) : calls[i].op = "release"}

\* A metric emitted by the plugin reaches the publisher stage: the plugin is
\* a collector of a Task without processors, or the last processor.
ReachesPublishers(plugin) ==
  \/ IndexIn(Taken("collect"), plugin) # 0 /\ Taken("process") = <<>>
  \/ Taken("process") # <<>> /\ plugin = Taken("process")[Len(Taken("process"))]

\* C21: each time a metric reaches the publisher stage it is released
\* exactly once, after publish() has been called with it on every publisher
\* (so never before or between those calls); a metric handed to a processor
\* is not released by the Task.
C21_ReleasedAfterPublish ==
  \A k \in 1..Len(metrics) :
    LET calls == metrics[k].calls IN
    IF ReachesPublishers(metrics[k].by)
    THEN /\ Releases(calls) = {Len(calls)}
         /\ SubSeq(calls, 1, Len(calls) - 1) = PublishAll(Taken("publish"))
    ELSE Releases(calls) = {}

\* A collector's metric went to two publishers and was released after the
\* second.
C21_Witness ==
  /\ Taken("publish") = <<1, 2>> /\ Taken("collect") = <<3>> /\ Taken("process") = <<>>
  /\ \E k \in 1..Len(metrics) :
       /\ metrics[k].by = 3
       /\ metrics[k].calls = <<[op |-> "publish", to |-> 1], [op |-> "publish", to |-> 2],
                               [op |-> "release", to |-> 0]>>

\* --------------------------------------- claims about plugin options
\* C22 (as claimed): a factory registered as [factory, elementOptions] with
\* call-level options is given an object of its own holding the keys of
\* both; for a key present in both the element-specific value takes
\* precedence; none of the caller's two objects is changed.
C22_ElementPrecedence ==
  \A i \in 1..Len(optionCalls) :
    LET c == optionCalls[i] IN
    /\ c.fresh
    /\ DOMAIN c.given = DOMAIN c.el \cup DOMAIN c.options
    /\ \A k \in DOMAIN c.given :
         c.given[k] = (IF k \in DOMAIN c.el THEN c.el[k] ELSE c.options[k])
    /\ c.elAfter = c.el
    /\ c.optionsAfter = c.options

\* ------------------------------------- claims about the status of a runner
Statuses == {STATUS_STOPPED, STATUS_STARTING, STATUS_STARTED, STATUS_STOPPING}

\* The step invokes the hook op of r: the log grows by that invocation.
Invokes(r, op) ==
  /\ Len(order') = Len(order) + 1
  /\ order'[Len(order')] = HookEntry(r, op)

\* The step completes the latest hook invocation of r, which was op.
Completes(r, op) ==
  LET i == LastHook(order, r) IN
  /\ i > 0
  /\ Len(order') = Len(order)
  /\ order[i].op = op /\ ~order[i].done
  /\ order'[i].done

\* One step of runner r's status.
StatusStep(r) ==
  LET i == LastHook(order, r) IN
  \/ status'[r] = status[r]
  \/ /\ status[r] = STATUS_STOPPED /\ status'[r] = STATUS_STARTING
     /\ Invokes(r, "_start")
  \/ /\ status[r] = STATUS_STARTING /\ status'[r] = STATUS_STARTED
     /\ Completes(r, "_start") /\ order'[i].err = NoErr
  \/ /\ status[r] = STATUS_STARTING /\ status'[r] = STATUS_STOPPED
     /\ Completes(r, "_start") /\ order'[i].err # NoErr
  \/ /\ status[r] = STATUS_STARTED /\ status'[r] = STATUS_STOPPING
     /\ Invokes(r, "_stop")
  \/ /\ status[r] = STATUS_STOPPING /\ status'[r] = STATUS_STOPPED
     /\ Completes(r, "_stop")

\* What a completed stop, failed or not, leaves: the runner is Stopped until
\* the next start is accepted, and a call that meets Stopped is accepted if
\* it is a start and rejected if it is a non-grace stop.
AfterStop(r) ==
  /\ status[r] \in Statuses
  /\ LET i == LastHook(order, r) IN
     (i > 0 /\ order[i].op = "_stop" /\ order[i].done) => status[r] = STATUS_STOPPED
  /\ \A i \in CallerIds :
       LET c == callers[i] IN
       (c.r = r /\ c.at = STATUS_STOPPED) =>
         /\ c.op = "start" => c.thrown = "" /\ c.ran /\ c.ret = STATUS_STARTING
         /\ (c.op = "stop" /\ ~c.grace) => Rejected(c, ErrStopBeforeStart)

\* C23: a runner's status is always Stopped, Starting, Started or Stopping
\* and changes only from Stopped to Starting (a start is accepted and invokes
\* the start hook), from Starting to Started (the start hook succeeded) or
\* to Stopped (it failed), from Started to Stopping (a stop is accepted and
\* invokes the stop hook) and from Stopping to Stopped (the stop hook
\* completed, with or without an error).  After a failed stop the runner is
\* Stopped: a following start is accepted, a following non-grace stop throws
\* 'Cannot stop() before start()'.
C23_StatusTransitions ==
  []AfterStop(Runner) /\ [][StatusStep(Runner)]_vars

\* A stop failed; the start that followed it was accepted.
C23_Witness ==
  /\ Len(callers) = 3
  /\ callers[2].op = "stop" /\ callers[2].ran /\ callers[2].n = 1 /\ callers[2].err # NoErr
  /\ callers[3].op = "start" /\ callers[3].at = STATUS_STOPPED /\ callers[3].ran
  /\ order[2].op = "_stop" /\ order[2].done /\ order[2].err # NoErr

\* The hook invocations of runner r, in order.
HooksOf(r) == LET OfR(e) == e.r = r IN SelectSeq(order, OfR)

\* The hook invocations of r so far are consistent with one hook at a time:
\* all but the latest have completed, a start hook follows nothing, a
\* completed stop or a failed start, a stop hook follows a successful start,
\* and the runner is Starting or Stopping exactly while its latest hook is in
\* flight.
HooksInTurn(r) ==
  LET hooks == HooksOf(r)
      n == Len(hooks)
  IN /\ OneAtATime(hooks)
     /\ n > 0 => hooks[1].op = "_start"
     /\ \A j \in 1..(n - 1) :
          /\ hooks[j + 1].op = "_start" =>
               (hooks[j].op = "_stop" \/ hooks[j].err # NoErr)
          /\ hooks[j + 1].op = "_stop" =>
               (hooks[j].op = "_start" /\ hooks[j].err = NoErr)
     /\ status[r] = STATUS_STARTING <=> (n > 0 /\ hooks[n].op = "_start" /\ ~hooks[n].done)
     /\ status[r] = STATUS_STOPPING <=> (n > 0 /\ hooks[n].op = "_stop" /\ ~hooks[n].done)
     /\ r \in Leaves /\ n > 0 /\ hooks[n].done => hook[r] = "none"

\* A step invokes a hook of r exactly when r leaves Stopped for Starting
\* (the start hook, once) or Started for Stopping (the stop hook, once).
HookPerTransition(r) ==
  LET leavesStopped == status[r] = STATUS_STOPPED /\ status'[r] = STATUS_STARTING
      leavesStarted == status[r] = STATUS_STARTED /\ status'[r] = STATUS_STOPPING
  IN /\ Len(order') <= Len(order) + 1
     /\ leavesStopped <=> Invokes(r, "_start")
     /\ leavesStarted <=> Invokes(r, "_stop")
     /\ Len(order') = Len(order) + 1 => (leavesStopped \/ leavesStarted)

\* C24: under every interleaving of grace and non-grace start/stop calls on
\* one runner at most one hook is in flight at a time; the start hook is
\* invoked only when the runner leaves Stopped and the stop hook only when it
\* leaves Started, once for each such transition, however many grace calls
\* joined or were deferred.
C24_OneHookPerTransition ==
  []HooksInTurn(Runner) /\ [][HookPerTransition(Runner)]_vars

\* A grace start joined the start in flight and a grace stop was deferred
\* behind it; the start hook and the stop hook ran once each and the three
\* callbacks were invoked.
C24_Witness ==
  /\ Len(callers) = 3
  /\ callers[1].op = "start" /\ callers[1].ran
  /\ callers[2].op = "start" /\ callers[2].grace /\ callers[2].at = STATUS_STARTING
  /\ callers[3].op = "stop" /\ callers[3].grace /\ callers[3].at = STATUS_STARTING
  /\ \A i \in 1..3 : callers[i].n = 1
  /\ Len(order) = 2
  /\ order[2].op = "_stop" /\ order[2].done

\* ------------------------------------------- claims about the Control
\* The plugins registered on a Task.
PluginsOfTask(t) ==
  Range(collectors[t]) \cup Range(processors[t]) \cup Range(publishers[t])
    \cup Range(schedules[t])

\* The hook invocations logged after index i.
After(i) == SubSeq(order, i + 1, Len(order))

\* The entries of runner r among the given ones, of kind op.
EntriesOf(entries, r, op) ==
  {j \in 1..Len(entries) : entries[j].r = r /\ entries[j].op = op}

IsTaskStart(e) == e.r \in Tasks /\ e.op = "_start"

\* The latest external call is a start of the Control that has reported a
\* failure.
ControlStartFailed(i) ==
  /\ i = Len(callers)
  /\ callers[i].r = Control /\ callers[i].op = "start" /\ callers[i].ran
  /\ callers[i].n = 1 /\ callers[i].err # NoErr

\* C25: once Control.start() has reported a failure, and as long as nothing
\* else calls start or stop, every plugin runner, every Task and the Control
\* are Stopped and no hook is in flight: the Tasks were started in order up
\* to the failing one; every plugin whose start had succeeded, in the failing
\* Task and in the Tasks before it, was stopped; the Tasks before the failing
\* one were stopped; the Tasks after it and their plugins were never started.
C25_FailedStartStopsAll ==
  \A i \in CallerIds :
    ControlStartFailed(i) =>
      LET seg == After(callers[i].hk)
          tried == SelectSeq(seg, IsTaskStart)
          k == Len(tried)
      IN /\ \A r \in Runners : status[r] = STATUS_STOPPED
         /\ \A r \in Leaves : hook[r] = "none"
         /\ AllDone(seg)
         /\ k > 0
         /\ RunnersOf(tried) = SubSeq(startOrder[Control], 1, k)
         /\ tried[k].err # NoErr
         /\ \A j \in 1..(k - 1) :
              /\ tried[j].err = NoErr
              /\ Cardinality(EntriesOf(seg, tried[j].r, "_stop")) = 1
         /\ EntriesOf(seg, tried[k].r, "_stop") = {}
         /\ \A r \in Leaves :
              Cardinality(EntriesOf(seg, r, "_stop"))
                = Cardinality({j \in EntriesOf(seg, r, "_start") : seg[j].err = NoErr})
         /\ \A j \in (k + 1)..Len(startOrder[Control]) :
              LET t == startOrder[Control][j] IN
              \A e \in 1..Len(seg) :
                seg[e].r \notin {t, multiRunner(t)} \cup PluginsOfTask(t)

\* The first Task has two plugins and the second one; the second Task's
\* plugin failed to start, after which the first Task and its two plugins
\* were stopped and the Control reported the failure.
C25_Witness ==
  /\ \E i \in CallerIds : ControlStartFailed(i)
  /\ startOrder[Control] = <<TaskId, Task2>>
  /\ Cardinality(PluginsOfTask(TaskId)) = 2
  /\ Cardinality(PluginsOfTask(Task2)) = 1
  /\ \A r \in PluginsOfTask(TaskId) :
       \E j \in 1..Len(order) : order[j].r = r /\ order[j].op = "_stop" /\ order[j].done
  /\ \E j \in 1..Len(order) : order[j].r = Task2 /\ order[j].err # NoErr

\* The first of two Tasks failed to start after one of its two plugins had
\* started; the second Task and its plugin were never started.
C25_WitnessFirst ==
  /\ \E i \in CallerIds : ControlStartFailed(i)
  /\ startOrder[Control] = <<TaskId, Task2>>
  /\ Cardinality(PluginsOfTask(TaskId)) = 2
  /\ Cardinality(PluginsOfTask(Task2)) = 1
  /\ \E j \in 1..Len(order) : order[j].r = TaskId /\ order[j].err # NoErr
  /\ \E j \in 1..Len(order) : order[j].r \in Leaves /\ order[j].op = "_stop"

\* The Task a plugin was registered on.
OwnerOf(p) == takes[CHOOSE i \in 1..Len(takes) : takes[i].p = p /\ takes[i].thrown = ""].t

\* The emissions of error e by runner by.
EventsOf(e, by) ==
  {i \in 1..Len(errorEvents) : errorEvents[i].e = e /\ errorEvents[i].by = by}

\* C26: an 'error' a plugin of an initialized Task emits on its own is
\* re-emitted exactly once by the Task and, when the Task belongs to the
\* Control, exactly once by the Control; every layer passes the plugin
\* instance on as the origin; and no status and no ping-cursor state
\* changes.
C26_ErrorForwarded ==
  \A e \in 1..Len(faults) :
    faults[e].init =>
      /\ Cardinality(EventsOf(e, OwnerOf(faults[e].p))) = 1
      /\ faults[e].owned => Cardinality(EventsOf(e, Control)) = 1
      /\ \A i \in 1..Len(errorEvents) :
           errorEvents[i].e = e => errorEvents[i].origin = PluginOrigin(faults[e].p)
      /\ faults[e].same

\* A plugin of a Task of the Control emitted an error while a ping was in
\* flight, and the Control's user heard it.
C26_Witness ==
  \E e \in 1..Len(faults) :
    /\ faults[e].init /\ faults[e].owned /\ faults[e].pinging /\ ~faults[e].unhandled
    /\ Cardinality(EventsOf(e, Control)) = 1

\* ------------------------------------------------- claims on termination
\* Call i was made and did not throw.
Called(i) == i \in CallerIds /\ callers[i].thrown = ""

\* The callback of call i has been invoked once.
Answered(i) == i \in CallerIds /\ callers[i].n = 1

\* C27: when every hook signals its completion and the calls are finitely
\* many, there comes a time from which the callback of every start or stop
\* call that did not throw has been invoked, and no callback is ever
\* invoked a second time.
C27_CallbackEventually ==
  /\ <>[](\A i \in CallerIds : Called(i) => Answered(i))
  /\ [](\A i \in CallerIds : callers[i].n <= 1)

\* A grace start that found a stop in flight, and so was deferred, has
\* been answered, as have the calls before it.
C27_Witness ==
  \E i \in CallerIds :
    /\ callers[i].grace /\ callers[i].op = "start" /\ callers[i].at = STATUS_STOPPING
    /\ \A j \in 1..i : Answered(j)

\* ------------------------------------ claims about a busy child
\* The errors of the guard of start().
StartGuardErrors == {ErrStartBeforeStop, ErrStartBeforeStopCompleted}

\* The start sequence of the Control has reached a child that was not
\* Stopped.
ReachedBusy(k) == reached[k].m = Control /\ reached[k].st # STATUS_STOPPED

\* C28: when the start sequence of a composite reaches a child that is not
\* Stopped, the child's guard error is thrown out of the sequence, to the
\* caller of start() or to the event loop; the callback of the start is
\* never invoked, no child is stopped to roll the start back, and the
\* composite stays Starting.
C28_BusyChildThrows ==
  \A k \in 1..Len(reached) :
    ReachedBusy(k) =>
      /\ \/ uncaught \in StartGuardErrors
         \/ \E i \in CallerIds :
              /\ callers[i].r = Control /\ callers[i].at = STATUS_STOPPED
              /\ callers[i].thrown \in StartGuardErrors
      /\ status[Control] = STATUS_STARTING
      /\ callback[Control].t = "caller" /\ callers[callback[Control].id].n = 0
      /\ \A j \in (reached[k].at + 1)..Len(order) :
           ~(order[j].r \in Tasks /\ order[j].op = "_stop")

\* The Control started its first Task and then reached its second one,
\* which had been started directly: the error went to the event loop and
\* the first Task has completed its start.
C28_Witness ==
  \E k \in 1..Len(reached) :
    /\ ReachedBusy(k) /\ reached[k].r = Task2
    /\ uncaught \in StartGuardErrors
    /\ status[TaskId] = STATUS_STARTED
    /\ tick = <<>> /\ \A r \in Leaves : hook[r] = "none"

\* ------------------------------------------- claims about restarts
\* How often x occurs in a sequence.
Count(seq, x) == Cardinality({i \in 1..Len(seq) : seq[i] = x})

\* The start() calls on the Task that ran its _start.
TaskStarts ==
  {i \in CallerIds : callers[i].r = TaskId /\ callers[i].op = "start" /\ callers[i].ran}

\* The invocations of the start hook of plugin p during the start of the
\* Task logged at index hk: those before the Task's next _start or _stop.
StartHooksIn(hk, p) ==
  {j \in (hk + 1)..Len(order) :
     /\ order[j].r = p /\ order[j].op = "_start"
     /\ \A l \in (hk + 1)..j : order[l].r # TaskId}

CyclesWithError ==
  {j \in AcceptedPings(pingers) : \E i \in 1..Len(pings) : pings[i].by = j /\ pings[i].err}

\* C30: an error a plugin passes to its ping completion is reported as a
\* warning and nothing else: the cycle goes on to the next plugin, so that
\* once every ping of the cycle is answered every pingable plugin has been
\* pinged and the ping() callback is due, and the callback is invoked
\* without an error.
C30_PingErrorIsWarning ==
  /\ uncaught = ""
  /\ Cardinality({i \in 1..Len(warnings) : warnings[i] = WarnPingError})
       = Cardinality({i \in 1..Len(pings) : pings[i].err})
  /\ \A j \in CyclesWithError :
       /\ IsPrefix(PluginsOf(PingsOf(j)), PingOrder)
       /\ Cardinality(Unanswered(PingsOf(j))) <= 1
       /\ Unanswered(PingsOf(j)) = {} =>
            /\ PluginsOf(PingsOf(j)) = PingOrder
            /\ pingers[j].n = 1 \/ Scheduled(j)
       /\ pingers[j].n <= 1
       /\ pingers[j].n = 1 => pingers[j].err = NoErr

\* The first of two plugins answered its ping with an error, the second was
\* pinged and answered, and the callback was invoked without an error.
C30_Witness ==
  \E j \in CyclesWithError :
    /\ Len(PingOrder) = 2
    /\ PluginsOf(PingsOf(j)) = PingOrder
    /\ PingsOf(j)[1].err /\ ~PingsOf(j)[2].err /\ PingsOf(j)[2].sig = 1
    /\ pingers[j].n = 1 /\ pingers[j].err = NoErr
    /\ warnings = <<WarnPingError>>

\* ------------------------------- claims about ping and the lifecycle
\* C31: ping() does not look at the Task's status: a ping() made while no
\* cycle is walking is accepted whatever the status; one made before the
\* Task's first start pings no plugin and its callback is due at once; one
\* made after a start has begun, also while the Task is Stopping or
\* Stopped, walks every pingable plugin; and a stop neither ends a cycle in
\* progress nor keeps its callback from being invoked.
C31_PingAnyStatus ==
  /\ \A j \in 1..Len(pingers) : ~pingers[j].walking => pingers[j].thrown = ""
  /\ \A j \in Sequenced :
       /\ CycleWalks(j, IF pingers[j].begun THEN PingOrder ELSE <<>>)
       /\ ~pingers[j].begun => pingers[j].walked = 0 /\ (pingers[j].n = 1 \/ Scheduled(j))
       /\ Unanswered(PingsOf(j)) = {} => (pingers[j].n = 1 \/ Scheduled(j))

\* A ping() made while the Task was Stopping pinged both plugins, the
\* second one after the Task had Stopped, and its callback was invoked.
C31_Witness ==
  \E j \in Sequenced :
    /\ pingers[j].at = STATUS_STOPPING
    /\ Len(PingOrder) = 2
    /\ PluginsOf(PingsOf(j)) = PingOrder
    /\ PingsOf(j)[2].st = STATUS_STOPPED
    /\ pingers[j].n = 1

====
